---------------------------- MODULE Spec2Model ----------------------------
(***************************************************************************)
(* A model of the chart suggestion engine of the starter project           *)
(* (src/src/utils/ChartSuggestionEngine.ts): the column classifier         *)
(* (determineDataType, getCardinalityLevel), the field analyzer            *)
(* (analyzeField), the rule table (suggestCharts, applyTableauRules) and   *)
(* the validator (validateChartSuggestion).                                *)
(*                                                                         *)
(* The engine keeps no state between calls and runs one call at a time.    *)
(* The state of the model is the frame of the call in hand: which          *)
(* operation ran, its arguments, the array it worked on and what it        *)
(* returned; between calls the engine is idle.                             *)
(***************************************************************************)
EXTENDS Integers, Sequences, FiniteSets, TLC

VARIABLES
    op,             \* the operation that ran last
    values,         \* determineDataType: the column it was given
    dataType,       \* determineDataType: the type it returned
    data,           \* suggestCharts: the rows it was given
    selectedFields, \* suggestCharts: the ordered list of selected field names
    fieldAnalysis,  \* suggestCharts: the descriptors produced at line 75
    fieldSets,      \* applyTableauRules / validateChartSuggestion: dimensions, measures, dates
    recordCount,    \* applyTableauRules / validateChartSuggestion: the record count
    appended,       \* applyTableauRules: the suggestions array as the rules left it, before the sort
    suggestions,    \* applyTableauRules: the suggestions array (line 87), sorted in place at line 388
    result,         \* suggestCharts / applyTableauRules: the returned object
    first,          \* the object returned by the call before a repeated call
    chartType,      \* validateChartSuggestion: the chart type asked about
    valid,          \* validateChartSuggestion: the returned boolean
    analyzedField,  \* analyzeField: the field name it was given
    fieldDescriptor, \* analyzeField: the descriptor it returned
    cardinalityCount, \* getCardinalityLevel: the count it was given
    countLevel,     \* getCardinalityLevel: the level it returned
    selection,      \* isCompatible / isColumnAddable: the selected columns
    columnTypes,    \* the chart helpers: the map from column name to type
    rowSample,      \* the chart helpers: the rows, if passed
    compatible,     \* isCompatible: what each variant of the table returned
    candidate,      \* isColumnAddable: the column asked about
    addable,        \* isColumnAddable: the returned boolean
    chartFamily,    \* getAutoSelectColumns: the chart type asked for
    allColumns,     \* getAutoSelectColumns: the columns of the dataset, in order
    autoColumns,    \* getAutoSelectColumns: the returned combination, or null
    histogramCells, \* the histogram: the cells of the selected column, row by row
    histogram,      \* the histogram: the values binned, the bin count and the counts
    chartInput,     \* the rendering of a chart: the variant, the selection and the rows
    chartOutput,    \* the rendering of a chart: the labels and datasets handed to the chart
    magicState,     \* MagicCharts: the state of the component (lines 494-503)
    inFlight,       \* MagicCharts: the files whose parse has not completed
    uploadLog,      \* MagicCharts: the uploads started and completed, in order
    uiEvent,        \* MagicCharts: the last event handled, and what a click on a column found
    appState,       \* App and DataUpload: the state of the components
    reading,        \* DataUpload: the files a FileReader is reading
    clock,          \* Date.now(), from which the id of a dataset is made
    appEvent,       \* App and DataUpload: the last event handled and the callbacks it called
    columnValues,   \* detectColumnType: the values of the column
    columnType      \* detectColumnType: the type returned

\* what a call of analyzeField or getCardinalityLevel adds to the frame
analyzerVars == <<analyzedField, fieldDescriptor, cardinalityCount, countLevel>>

\* the frame of a call of the suggestion engine
engineVars == <<values, dataType, data, selectedFields, fieldAnalysis, fieldSets,
                recordCount, appended, suggestions, result, first, chartType, valid>>

\* the frame of a call of a chart helper of the column screen
chartVars == <<selection, columnTypes, rowSample, compatible, candidate, addable,
               chartFamily, allColumns, autoColumns>>

\* what the binning of a histogram works on and leaves
histogramVars == <<histogramCells, histogram>>

\* what the rendering of a chart works on and leaves
renderVars == <<chartInput, chartOutput>>

\* the MagicCharts component and the parses it has started
screenVars == <<magicState, inFlight, uploadLog, uiEvent>>

\* the App component, the DataUpload component and the files being read
appVars == <<appState, reading, clock, appEvent>>

\* the call of detectColumnType in hand
detectVars == <<columnValues, columnType>>

\* the variables a call of the engine leaves alone
otherThanAnalyzer == <<chartVars, histogramVars, renderVars, screenVars, appVars, detectVars>>
otherThanEngine == <<analyzerVars, otherThanAnalyzer>>

\* the variables a call of a chart helper leaves alone
otherThanCharts == <<engineVars, analyzerVars, histogramVars, renderVars, screenVars, appVars,
    detectVars>>

\* the variables the binning of a histogram leaves alone
otherThanHistogram == <<engineVars, analyzerVars, chartVars, renderVars, screenVars, appVars,
    detectVars>>

\* the variables the rendering of a chart leaves alone
otherThanRender == <<engineVars, analyzerVars, chartVars, histogramVars, screenVars, appVars,
    detectVars>>

\* the variables the MagicCharts component leaves alone
otherThanScreen == <<op, engineVars, analyzerVars, chartVars, histogramVars, renderVars, appVars,
    detectVars>>

\* the variables App and DataUpload leave alone
otherThanApp == <<op, engineVars, analyzerVars, chartVars, histogramVars, renderVars, screenVars,
                  detectVars>>

\* the variables a call of detectColumnType leaves alone
otherThanDetect == <<engineVars, analyzerVars, chartVars, histogramVars, renderVars, screenVars,
                     appVars>>

vars == <<op, engineVars, analyzerVars, chartVars, histogramVars, renderVars, screenVars,
          appVars, detectVars>>

---------------------------------------------------------------------------
(* Bounds of the model.                                                    *)

MaxInts == 21        \* distinct integers in a column given to determineDataType
MaxOthers == 2       \* non-numeric, non-date strings in such a column
MaxMeasures == 3     \* measures in a field set given to applyTableauRules
MaxDimensions == 2   \* dimensions in such a field set
MaxDates == 2        \* dates in such a field set
MaxSelected == 3     \* length of selectedFields
MaxRows == 22        \* rows of the larger datasets
MaxMissing == 1      \* null, undefined and empty cells (of each) in a column given to analyzeField
MaxChosen == 4       \* columns in a selection given to isCompatible
MaxAddedTo == 3      \* columns in a selection given to isColumnAddable
MaxColumns == 4      \* columns of a dataset given to getAutoSelectColumns
MaxTableRows == 11   \* rows of the tables given to the chart helpers
MaxBinned == 17      \* rows of the column a histogram is drawn of
MaxDrawnRows == 5    \* rows of the tables the charts are rendered of
MaxPieRows == 21     \* rows of the tables the pie charts are rendered of
MaxUploads == 2      \* files uploaded to MagicCharts in a session
MaxRegistered == 3   \* datasets registered with App in a session
MaxValues == 11      \* values of a column given to detectColumnType

---------------------------------------------------------------------------
(* Strings are sequences of one-character strings, so that toLowerCase and *)
(* includes are computed and not assumed.                                  *)

UpperCase == <<"A","B","C","D","E","F","G","H","I","J","K","L","M",
               "N","O","P","Q","R","S","T","U","V","W","X","Y","Z">>
LowerCase == <<"a","b","c","d","e","f","g","h","i","j","k","l","m",
               "n","o","p","q","r","s","t","u","v","w","x","y","z">>
Digits == <<"0","1","2","3","4","5","6","7","8","9">>

\* the lower-case letter of every upper-case letter
LowerOf ==
    [c \in {UpperCase[i] : i \in 1..26} |-> LowerCase[CHOOSE i \in 1..26 : UpperCase[i] = c]]

toLowerCaseChar(c) == IF c \in DOMAIN LowerOf THEN LowerOf[c] ELSE c

\* String.prototype.toLowerCase
toLowerCase(s) == [i \in 1..Len(s) |-> toLowerCaseChar(s[i])]

\* String.prototype.includes
includes(s, keyword) ==
    \E i \in 0..(Len(s) - Len(keyword)) : SubSeq(s, i + 1, i + Len(keyword)) = keyword

\* the value of every decimal digit
DigitValues == [c \in {Digits[d] : d \in 1..10} |-> (CHOOSE d \in 1..10 : Digits[d] = c) - 1]

IsDigit(c) == c \in DOMAIN DigitValues
DigitVal(c) == DigitValues[c]

\* the decimal digits of a natural number below 10000, without leading zeros
NatString(n) ==
    IF n < 10 THEN <<Digits[n + 1]>>
    ELSE IF n < 100 THEN <<Digits[(n \div 10) + 1], Digits[(n % 10) + 1]>>
    ELSE IF n < 1000 THEN <<Digits[(n \div 100) + 1], Digits[((n \div 10) % 10) + 1],
                            Digits[(n % 10) + 1]>>
    ELSE <<Digits[(n \div 1000) + 1], Digits[((n \div 100) % 10) + 1],
           Digits[((n \div 10) % 10) + 1], Digits[(n % 10) + 1]>>

TwoDigits(n) == <<Digits[(n \div 10) + 1], Digits[(n % 10) + 1]>>

---------------------------------------------------------------------------
(* Cell values.  A number is kept as twice its value, so that n = 3 is the *)
(* number 1.5 and Number.isInteger is n being even.  NaN has typeof        *)
(* 'number' and is its own kind.  A Date instance is identified by the     *)
(* object (n), as new Set compares objects by identity.                    *)

Null == [kind |-> "null", n |-> 0, s |-> <<>>]
Undefined == [kind |-> "undefined", n |-> 0, s |-> <<>>]
NaN == [kind |-> "NaN", n |-> 0, s |-> <<>>]
Num(k) == [kind |-> "number", n |-> 2 * k, s |-> <<>>]
Half(k) == [kind |-> "number", n |-> 2 * k + 1, s |-> <<>>]
Str(chars) == [kind |-> "string", n |-> 0, s |-> chars]
DateObj(id) == [kind |-> "Date", n |-> id, s |-> <<>>]

\* "2024-MM-DD": distinct for distinct i in 0..335
DateStr(i) == Str(<<"2","0","2","4","-">> \o TwoDigits((i \div 28) + 1) \o <<"-">>
                  \o TwoDigits((i % 28) + 1))
\* "2000", "2001", ...: a date string (a year) that is also numeric-parseable
YearStr(i) == Str(NatString(2000 + i))
\* "xaa", "xab", ...: words of letters, neither dates nor numbers; distinct for i in 0..675
Word(i) == Str(<<"x", LowerCase[(i \div 26) + 1], LowerCase[(i % 26) + 1]>>)

\* typeof v === 'number' && !isNaN(v)   (line 38)
IsNumeric(v) == v.kind = "number"

\* Number.isInteger(v)   (line 49)
NumberIsInteger(v) == v.kind = "number" /\ v.n % 2 = 0

(* new Date(s) is valid.  Of the strings of the model the valid ones are   *)
(* those of the ECMAScript date-time string format, date-only forms YYYY,  *)
(* YYYY-MM and YYYY-MM-DD; the empty string and words of letters are       *)
(* invalid dates in every engine.                                          *)
InRange(c1, c2, lo, hi) ==
    /\ IsDigit(c1) /\ IsDigit(c2)
    /\ 10 * DigitVal(c1) + DigitVal(c2) >= lo
    /\ 10 * DigitVal(c1) + DigitVal(c2) <= hi

DateParses(s) ==
    /\ Len(s) \in {4, 7, 10}
    /\ \A i \in 1..4 : IsDigit(s[i])
    /\ Len(s) >= 7 => (s[5] = "-" /\ InRange(s[6], s[7], 1, 12))
    /\ Len(s) = 10 => (s[8] = "-" /\ InRange(s[9], s[10], 1, 31))

\* a faulty variant of isDateString: strings that read as a number are not dates
isDateStringNotNumeric(value) ==
    /\ value.kind = "string"
    /\ DateParses(value.s)
    /\ \E i \in 1..Len(value.s) : ~IsDigit(value.s[i])

\* isDateString   (lines 409-413)
isDateString(value) ==
    IF value.kind # "string" THEN FALSE
    ELSE DateParses(value.s)

\* v instanceof Date || this.isDateString(v)   (line 40)
IsDateValue(v) == v.kind = "Date" \/ isDateString(v)

\* new Set(xs).size
SetSize(xs) == Cardinality({xs[i] : i \in 1..Len(xs)})

\* a faulty variant of determineDataType: the integer test of line 49 is left out
determineDataTypeNoIntegerTest(vals) ==
    LET numericValues == SelectSeq(vals, IsNumeric)
        dateValues == SelectSeq(vals, IsDateValue)
    IN  IF 10 * Len(dateValues) > 8 * Len(vals) THEN "DATE"
        ELSE IF 10 * Len(numericValues) > 8 * Len(vals)
             THEN IF SetSize(numericValues) <= 20 THEN "DIMENSION" ELSE "MEASURE"
             ELSE "DIMENSION"

\* a faulty variant of determineDataType: the thresholds are reached, not exceeded
determineDataTypeAtLeast(vals) ==
    LET numericValues == SelectSeq(vals, IsNumeric)
        dateValues == SelectSeq(vals, IsDateValue)
    IN  IF 10 * Len(dateValues) >= 8 * Len(vals) THEN "DATE"
        ELSE IF 10 * Len(numericValues) >= 8 * Len(vals)
             THEN LET uniqueCount == SetSize(numericValues)
                  IN  IF /\ uniqueCount <= 20
                         /\ \A i \in 1..Len(numericValues) : NumberIsInteger(numericValues[i])
                      THEN "DIMENSION"
                      ELSE "MEASURE"
             ELSE "DIMENSION"

(* determineDataType   (lines 36-56).  count > length * 0.8 is computed in *)
(* doubles; the product length * 0.8 rounds to the exact 4/5 of length     *)
(* whenever that is an integer, so the test is 10 * count > 8 * length.    *)
determineDataType(vals) ==
    LET numericValues == SelectSeq(vals, IsNumeric)
        dateValues == SelectSeq(vals, IsDateValue)
    IN  IF 10 * Len(dateValues) > 8 * Len(vals) THEN "DATE"
        ELSE IF 10 * Len(numericValues) > 8 * Len(vals)
             THEN LET uniqueCount == SetSize(numericValues)
                  IN  IF /\ uniqueCount <= 20
                         /\ \A i \in 1..Len(numericValues) : NumberIsInteger(numericValues[i])
                      THEN "DIMENSION"
                      ELSE "MEASURE"
             ELSE "DIMENSION"

\* CARDINALITY_THRESHOLDS   (lines 8-12)
LOW == 20
MEDIUM == 100
HIGH == 1000

\* a faulty variant of getCardinalityLevel: the thresholds themselves fall in the next level
getCardinalityLevelStrict(count) ==
    IF count < LOW THEN "LOW"
    ELSE IF count < MEDIUM THEN "MEDIUM"
    ELSE "HIGH"

\* getCardinalityLevel   (lines 61-65)
getCardinalityLevel(count) ==
    IF count <= LOW THEN "LOW"
    ELSE IF count <= MEDIUM THEN "MEDIUM"
    ELSE "HIGH"

---------------------------------------------------------------------------
(* The field analyzer.                                                     *)

\* row[fieldName]: undefined when the row has no such property
RowValue(row, fieldName) ==
    IF fieldName \in DOMAIN row THEN row[fieldName] ELSE Undefined

\* a faulty variant of the filter of line 19: the empty string is dropped as well
NotNullishNorEmpty(v) == v.kind \notin {"null", "undefined"} /\ v # Str(<<>>)

\* v != null   (line 19): neither null nor undefined
NotNullish(v) == v.kind \notin {"null", "undefined"}

\* [...new Set(xs)]: the distinct values in first-seen order
Unique(xs) ==
    LET indexed == [i \in 1..Len(xs) |-> [index |-> i, value |-> xs[i]]]
        FirstSeen(e) == \A j \in 1..(e.index - 1) : xs[j] # e.value
        kept == SelectSeq(indexed, FirstSeen)
    IN  [i \in 1..Len(kept) |-> kept[i].value]

\* Array.prototype.slice(0, k)
Slice(xs, k) == SubSeq(xs, 1, IF Len(xs) < k THEN Len(xs) ELSE k)

\* analyzeField   (lines 18-31)
analyzeField(rows, fieldName) ==
    LET vals == SelectSeq([i \in 1..Len(rows) |-> RowValue(rows[i], fieldName)], NotNullish)
        uniqueValues == Unique(vals)
    IN  [name |-> fieldName,
         type |-> determineDataType(vals),
         cardinality |-> Len(uniqueValues),
         cardinalityLevel |-> getCardinalityLevel(Len(uniqueValues)),
         uniqueValues |-> Slice(uniqueValues, 10),
         hasNulls |-> Len(vals) < Len(rows),
         sampleValues |-> Slice(vals, 5)]

---------------------------------------------------------------------------
(* The helpers of the rule table.                                          *)

\* partOfWholeKeywords   (line 398)
partOfWholeKeywords ==
    <<<<"p","e","r","c","e","n","t","a","g","e">>,
      <<"p","e","r","c","e","n","t">>,
      <<"s","h","a","r","e">>,
      <<"p","r","o","p","o","r","t","i","o","n">>,
      <<"r","a","t","i","o">>>>

\* a faulty variant of measuresRepresentPartsOfWhole: the name is not lower-cased
measuresRepresentPartsOfWholeCaseSensitive(measures) ==
    \E m \in 1..Len(measures) : \E k \in 1..Len(partOfWholeKeywords) :
        includes(measures[m].name, partOfWholeKeywords[k])

\* measuresRepresentPartsOfWhole   (lines 396-404)
measuresRepresentPartsOfWhole(measures) ==
    \E m \in 1..Len(measures) : \E k \in 1..Len(partOfWholeKeywords) :
        includes(toLowerCase(measures[m].name), partOfWholeKeywords[k])

\* geoKeywords   (line 416)
geoKeywords ==
    <<<<"c","o","u","n","t","r","y">>,
      <<"s","t","a","t","e">>,
      <<"c","i","t","y">>,
      <<"r","e","g","i","o","n">>,
      <<"l","o","c","a","t","i","o","n">>,
      <<"l","a","t">>,
      <<"l","n","g">>,
      <<"l","o","n","g","i","t","u","d","e">>,
      <<"l","a","t","i","t","u","d","e">>>>

\* isGeographicField   (lines 415-418)
isGeographicField(fieldName) ==
    \E k \in 1..Len(geoKeywords) : includes(toLowerCase(fieldName), geoKeywords[k])

\* geoValues   (line 421)
geoValues ==
    <<<<"u","s","a">>,
      <<"u","k">>,
      <<"c","a","n","a","d","a">>,
      <<"a","u","s","t","r","a","l","i","a">>,
      <<"g","e","r","m","a","n","y">>,
      <<"f","r","a","n","c","e">>,
      <<"j","a","p","a","n">>,
      <<"c","h","i","n","a">>>>

\* value.toString() of a string, a non-negative number or NaN
valueToString(value) ==
    CASE value.kind = "string" -> value.s
      [] value.kind = "NaN" -> <<"N","a","N">>
      [] value.kind = "number" /\ value.n % 2 = 0 -> NatString(value.n \div 2)
      [] value.kind = "number" /\ value.n % 2 = 1 -> NatString(value.n \div 2) \o <<".","5">>

\* containsGeographicValues   (lines 420-425)
containsGeographicValues(vals) ==
    \E i \in 1..Len(vals) : \E g \in 1..Len(geoValues) :
        geoValues[g] = toLowerCase(valueToString(vals[i]))

---------------------------------------------------------------------------
(* The rule table of applyTableauRules   (lines 86-391).  Each rule is the *)
(* list of suggestions its block pushes; the blocks run in source order.   *)

Suggestion(type, priority, reason) ==
    [type |-> type, priority |-> priority, reason |-> reason]

\* Rule 1: Single Measure   (lines 92-99)
Rule1(dimensions, measures, dates) ==
    IF Len(measures) = 1 /\ Len(dimensions) = 0 /\ Len(dates) = 0
    THEN <<Suggestion("histogram", 1, "Single continuous measure - show distribution")>>
    ELSE <<>>

\* Rule 2: Single Dimension   (lines 101-111)
Rule2(dimensions, measures, dates) ==
    IF /\ Len(dimensions) = 1 /\ Len(measures) = 0 /\ Len(dates) = 0
       /\ dimensions[1].cardinalityLevel = "LOW"
    THEN <<Suggestion("bar", 1, "Single categorical dimension - show frequency")>>
    ELSE <<>>

\* Rule 3: One Dimension + One Measure   (lines 113-130)
Rule3(dimensions, measures, dates) ==
    IF /\ Len(dimensions) = 1 /\ Len(measures) = 1 /\ Len(dates) = 0
       /\ dimensions[1].cardinalityLevel = "LOW"
    THEN <<Suggestion("bar", 1,
              "Categorical dimension with measure - compare values across categories")>>
         \o (IF dimensions[1].cardinality <= 7
             THEN <<Suggestion("pie", 2, "Few categories - can show parts of whole")>>
             ELSE <<>>)
    ELSE <<>>

\* a faulty variant of Rule 4: the two suggestions are pushed in the other order
Rule4BarFirst(dimensions, measures, dates) ==
    IF Len(dates) = 1 /\ Len(measures) = 1 /\ Len(dimensions) = 0
    THEN <<Suggestion("bar", 1, "Time periods - compare values across time periods"),
           Suggestion("line", 2, "Time series data - show trend over time")>>
    ELSE <<>>

\* Rule 4: One Date + One Measure   (lines 132-144)
Rule4(dimensions, measures, dates) ==
    IF Len(dates) = 1 /\ Len(measures) = 1 /\ Len(dimensions) = 0
    THEN <<Suggestion("line", 1, "Time series data - show trend over time"),
           Suggestion("bar", 2, "Time periods - compare values across time periods")>>
    ELSE <<>>

\* Rule 5: Two Measures   (lines 146-153)
Rule5(dimensions, measures, dates) ==
    IF Len(measures) = 2 /\ Len(dimensions) = 0 /\ Len(dates) = 0
    THEN <<Suggestion("scatter", 1, "Two continuous measures - show correlation")>>
    ELSE <<>>

\* Rule 6: Multiple Measures + One Dimension   (lines 155-170)
Rule6(dimensions, measures, dates) ==
    IF /\ Len(measures) >= 2 /\ Len(dimensions) = 1 /\ Len(dates) = 0
       /\ dimensions[1].cardinalityLevel = "LOW"
    THEN <<Suggestion("grouped_bar", 1,
              "Multiple measures with categorical dimension - compare measures across categories"),
           Suggestion("line", 2,
              "Multiple measures over categories - show trends for each measure")>>
    ELSE <<>>

\* Rule 7: Multiple Measures + One Date   (lines 172-184)
Rule7(dimensions, measures, dates) ==
    IF Len(measures) >= 2 /\ Len(dimensions) = 0 /\ Len(dates) = 1
    THEN <<Suggestion("line", 1, "Multiple measures over time - show trends for each measure"),
           Suggestion("stacked_area", 2,
              "Multiple measures over time - show cumulative contribution")>>
    ELSE <<>>

\* dimensions.filter(d => d.cardinalityLevel === 'LOW')   (lines 188, 249)
IsLowCardinality(d) == d.cardinalityLevel = "LOW"

\* Rule 8: Two Dimensions + One Measure   (lines 186-206)
Rule8(dimensions, measures, dates) ==
    IF /\ Len(dimensions) = 2 /\ Len(measures) = 1 /\ Len(dates) = 0
       /\ Len(SelectSeq(dimensions, IsLowCardinality)) = 2
    THEN <<Suggestion("grouped_bar", 1,
              "Two categorical dimensions with measure - group by one dimension"),
           Suggestion("stacked_bar", 2,
              "Two categorical dimensions with measure - stack by secondary dimension"),
           Suggestion("heatmap", 3,
              "Two categorical dimensions with measure - show intensity across categories")>>
    ELSE <<>>

\* a faulty variant of Rule 9: the priorities of the line and the stacked area are exchanged
Rule9AreaFirst(dimensions, measures, dates) ==
    IF /\ Len(dates) = 1 /\ Len(dimensions) = 1 /\ Len(measures) = 1
       /\ dimensions[1].cardinalityLevel = "LOW"
    THEN <<Suggestion("line", 2, "Time series by category - show trends for each group"),
           Suggestion("stacked_area", 1, "Stacked area - show contribution over time"),
           Suggestion("grouped_bar", 3,
              "Grouped bars over time - compare categories within time periods")>>
    ELSE <<>>

\* Rule 9: One Date + One Dimension + One Measure   (lines 208-228)
Rule9(dimensions, measures, dates) ==
    IF /\ Len(dates) = 1 /\ Len(dimensions) = 1 /\ Len(measures) = 1
       /\ dimensions[1].cardinalityLevel = "LOW"
    THEN <<Suggestion("line", 1, "Time series by category - show trends for each group"),
           Suggestion("stacked_area", 2, "Stacked area - show contribution over time"),
           Suggestion("grouped_bar", 3,
              "Grouped bars over time - compare categories within time periods")>>
    ELSE <<>>

\* Rule 10: One Date + One Dimension + Multiple Measures   (lines 230-245)
Rule10(dimensions, measures, dates) ==
    IF /\ Len(dates) = 1 /\ Len(dimensions) = 1 /\ Len(measures) >= 2
       /\ dimensions[1].cardinalityLevel = "LOW"
    THEN <<Suggestion("line", 1,
              "Multiple time series by category - show trends for each measure and group"),
           Suggestion("stacked_area", 2,
              "Stacked area by category - show measure contributions over time")>>
    ELSE <<>>

\* Rule 11: Two Dimensions + Multiple Measures   (lines 247-262)
Rule11(dimensions, measures, dates) ==
    IF /\ Len(dimensions) = 2 /\ Len(measures) >= 2 /\ Len(dates) = 0
       /\ Len(SelectSeq(dimensions, IsLowCardinality)) = 2
    THEN <<Suggestion("grouped_bar", 1,
              "Multiple measures with two dimensions - group and compare measures"),
           Suggestion("heatmap", 2,
              "Multiple measures - create separate heatmaps for each measure")>>
    ELSE <<>>

\* Rule 12: Three or More Measures   (lines 264-302)
Rule12(dimensions, measures, dates) ==
    IF Len(measures) >= 3 /\ Len(dimensions) <= 1 /\ Len(dates) <= 1
    THEN (IF Len(dates) = 1
          THEN <<Suggestion("line", 1, "Multiple measures over time - parallel time series"),
                 Suggestion("stacked_area", 2,
                    "Multiple measures over time - show cumulative values")>>
          ELSE <<>>)
      \o (IF Len(dimensions) = 1 /\ dimensions[1].cardinalityLevel = "LOW"
          THEN <<Suggestion("radar", 1,
                    "Multiple measures by category - radar chart shows multidimensional comparison"),
                 Suggestion("grouped_bar", 2,
                    "Multiple measures by category - grouped bars for detailed comparison")>>
          ELSE <<>>)
      \o (IF Len(dimensions) = 0 /\ Len(dates) = 0
          THEN <<Suggestion("parallel_coordinates", 1,
                    "Multiple measures only - parallel coordinates show relationships")>>
          ELSE <<>>)
    ELSE <<>>

\* Rule 13: Two Measures + One Dimension   (lines 304-319)
Rule13(dimensions, measures, dates) ==
    IF /\ Len(measures) = 2 /\ Len(dimensions) = 1 /\ Len(dates) = 0
       /\ dimensions[1].cardinalityLevel = "LOW"
    THEN <<Suggestion("scatter", 1,
              "Two measures with categorical dimension - scatter plot colored by category"),
           Suggestion("grouped_bar", 2,
              "Two measures with categorical dimension - grouped bars to compare both measures")>>
    ELSE <<>>

\* the template literal of line 336 for the two scenario types
StackableReason(type) ==
    IF type = "stacked_area"
    THEN "Stackable data structure - stacked_area shows composition"
    ELSE "Stackable data structure - stacked_bar shows composition"

\* stackableScenarios   (lines 322-329)
stackableScenarios(dimensions, measures, dates) ==
    <<[condition |-> Len(dates) = 1 /\ Len(dimensions) = 1 /\ Len(measures) = 1,
       type |-> "stacked_area"],
      [condition |-> Len(measures) >= 2 /\ measuresRepresentPartsOfWhole(measures),
       type |-> "stacked_bar"],
      [condition |-> Len(dimensions) = 2 /\ Len(measures) = 1,
       type |-> "stacked_bar"]>>

\* the concatenation of a list of lists
RECURSIVE Flatten(_, _)
Flatten(lists, i) ==
    IF i > Len(lists) THEN <<>> ELSE lists[i] \o Flatten(lists, i + 1)

\* the body of stackableScenarios.forEach   (lines 331-339)
PushScenario(scenario) ==
    IF scenario.condition
    THEN <<Suggestion(scenario.type, 2, StackableReason(scenario.type))>>
    ELSE <<>>

\* Rule 14: Advanced Stacking Logic   (lines 321-339)
Rule14(dimensions, measures, dates) ==
    LET scenarios == stackableScenarios(dimensions, measures, dates)
    IN  Flatten([i \in 1..Len(scenarios) |-> PushScenario(scenarios[i])], 1)

\* the body of dimensions.forEach   (lines 340-351)
PushTreemap(dim, measures) ==
    IF dim.cardinalityLevel = "HIGH" /\ Len(measures) >= 1
    THEN <<Suggestion("treemap", 3, "High cardinality dimension - treemap shows hierarchy")>>
    ELSE <<>>

\* the high-cardinality block   (lines 340-351)
HighCardinalityRule(dimensions, measures, dates) ==
    Flatten([i \in 1..Len(dimensions) |-> PushTreemap(dimensions[i], measures)], 1)

\* Large Dataset Rules   (lines 353-362)
LargeDatasetRule(measures, count) ==
    IF count > 10000 /\ Len(measures) >= 2
    THEN <<Suggestion("density", 2,
              "Large dataset - density plot shows patterns better than individual points")>>
    ELSE <<>>

\* d => isGeographicField(d.name) || containsGeographicValues(d.uniqueValues)   (lines 365-368)
IsGeoField(d) == isGeographicField(d.name) \/ containsGeographicValues(d.uniqueValues)

\* Geographic Data Detection   (lines 364-376)
GeographicRule(dimensions, measures, dates) ==
    LET geoFields == SelectSeq(dimensions, IsGeoField)
    IN  IF Len(geoFields) > 0 /\ Len(measures) >= 1
        THEN <<Suggestion("map", 1, "Geographic dimension detected - map visualization")>>
        ELSE <<>>

\* a faulty variant of the fallback: the table is pushed whatever the rules pushed
FallbackAlways(pushed) ==
    Append(pushed, Suggestion("table", 1, "Complex data structure - tabular view recommended"))

\* Fallback rules   (lines 378-385)
Fallback(pushed) ==
    IF Len(pushed) = 0
    THEN Append(pushed,
            Suggestion("table", 1, "Complex data structure - tabular view recommended"))
    ELSE pushed

\* a.priority - b.priority <= 0: a is kept before b   (line 388)
RECURSIVE InsertAfterEquals(_, _)
InsertAfterEquals(sorted, x) ==
    IF sorted = <<>> THEN <<x>>
    ELSE IF Head(sorted).priority - x.priority <= 0
         THEN <<Head(sorted)>> \o InsertAfterEquals(Tail(sorted), x)
         ELSE <<x>> \o sorted

RECURSIVE InsertBeforeEquals(_, _)
InsertBeforeEquals(sorted, x) ==
    IF sorted = <<>> THEN <<x>>
    ELSE IF Head(sorted).priority - x.priority < 0
         THEN <<Head(sorted)>> \o InsertBeforeEquals(Tail(sorted), x)
         ELSE <<x>> \o sorted

RECURSIVE SortUnstableFrom(_, _, _)
SortUnstableFrom(xs, i, sorted) ==
    IF i > Len(xs) THEN sorted
    ELSE SortUnstableFrom(xs, i + 1, InsertBeforeEquals(sorted, xs[i]))

\* a faulty variant of the sort: an unstable sort, which reverses equal priorities
sortUnstable(xs) == SortUnstableFrom(xs, 1, <<>>)

RECURSIVE SortFrom(_, _, _)
SortFrom(xs, i, sorted) ==
    IF i > Len(xs) THEN sorted
    ELSE SortFrom(xs, i + 1, InsertAfterEquals(sorted, xs[i]))

(* suggestions.sort((a, b) => a.priority - b.priority)   (line 388):      *)
(* Array.prototype.sort is stable (ECMAScript 2019), so equal priorities   *)
(* keep their order.                                                       *)
sortByPriority(xs) == SortFrom(xs, 1, <<>>)

\* a faulty variant of line 87: the array of the call before is used again
sharedArray(previous) == previous

\* const suggestions: any[] = []   (line 87): a new array in every call
newArray(previous) == <<>>

(* applyTableauRules   (lines 86-391).  `previous` is the array the call   *)
(* before left; the code never reads it.                                   *)
applyTableauRules(dimensions, measures, dates, count, previous) ==
    LET pushed == newArray(previous)
                  \o Rule1(dimensions, measures, dates)
                  \o Rule2(dimensions, measures, dates)
                  \o Rule3(dimensions, measures, dates)
                  \o Rule4(dimensions, measures, dates)
                  \o Rule5(dimensions, measures, dates)
                  \o Rule6(dimensions, measures, dates)
                  \o Rule7(dimensions, measures, dates)
                  \o Rule8(dimensions, measures, dates)
                  \o Rule9(dimensions, measures, dates)
                  \o Rule10(dimensions, measures, dates)
                  \o Rule11(dimensions, measures, dates)
                  \o Rule12(dimensions, measures, dates)
                  \o Rule13(dimensions, measures, dates)
                  \o Rule14(dimensions, measures, dates)
                  \o HighCardinalityRule(dimensions, measures, dates)
                  \o LargeDatasetRule(measures, count)
                  \o GeographicRule(dimensions, measures, dates)
        all == Fallback(pushed)
        sorted == sortByPriority(all)
    IN  [appended |-> all,
         suggestions |-> sorted,
         result |-> [suggestions |-> sorted,
                     fieldAnalysis |-> [dimensions |-> dimensions, measures |-> measures,
                                        dates |-> dates]]]

---------------------------------------------------------------------------
(* suggestCharts and validateChartSuggestion.                              *)

NoFieldSets == [dimensions |-> <<>>, measures |-> <<>>, dates |-> <<>>]

IsDimension(f) == f.type = "DIMENSION"
IsMeasure(f) == f.type = "MEASURE"
IsDate(f) == f.type = "DATE"

\* lines 75-80 of suggestCharts: analyse, partition, apply the rules
AnalyseAndApply(rows, selected, previous) ==
    LET analysis == [i \in 1..Len(selected.list) |-> analyzeField(rows, selected.list[i])]
        dimensions == SelectSeq(analysis, IsDimension)
        measures == SelectSeq(analysis, IsMeasure)
        dates == SelectSeq(analysis, IsDate)
        applied == applyTableauRules(dimensions, measures, dates, Len(rows), previous)
    IN  [fieldAnalysis |-> analysis,
         fieldSets |-> applied.result.fieldAnalysis,
         recordCount |-> Len(rows),
         appended |-> applied.appended,
         suggestions |-> applied.suggestions,
         result |-> applied.result]

\* a faulty variant of suggestCharts: the guard of lines 71-73 is left out
suggestChartsNoGuard(rows, selected, previous) ==
    AnalyseAndApply(rows, selected, previous)

(* suggestCharts   (lines 70-81).  selected.defined is false for a missing *)
(* (undefined or null) list of fields, whose list is then empty.           *)
suggestCharts(rows, selected, previous) ==
    IF ~selected.defined \/ Len(selected.list) = 0
    THEN [fieldAnalysis |-> <<>>,
          fieldSets |-> NoFieldSets,
          recordCount |-> 0,
          appended |-> <<>>,
          suggestions |-> <<>>,
          result |-> [suggestions |-> <<>>, reason |-> "No fields selected"]]
    ELSE AnalyseAndApply(rows, selected, previous)

\* a faulty variant of validateChartSuggestion: scatter asks for more than 10 records
validateChartSuggestionStrict(type, analysis, count) ==
    CASE type = "pie" ->
            /\ Len(analysis.measures) = 1
            /\ Len(analysis.dimensions) = 1
            /\ ~(analysis.dimensions[1].cardinality > 7)
      [] type = "histogram" ->
            /\ Len(analysis.measures) = 1
            /\ ~(Len(analysis.dimensions) + Len(analysis.dates) > 0)
      [] type = "scatter" ->
            /\ ~(Len(analysis.measures) < 2)
            /\ ~(count <= 10)
      [] type = "line" ->
            /\ Len(analysis.measures) = 1
            /\ Len(analysis.dates) = 1
      [] type = "heatmap" ->
            /\ Len(analysis.dimensions) = 2
            /\ Len(analysis.measures) = 1
            /\ ~(\E i \in 1..Len(analysis.dimensions) :
                    analysis.dimensions[i].cardinalityLevel = "HIGH")
      [] OTHER -> TRUE

\* validateChartSuggestion   (lines 430-468)
validateChartSuggestion(type, analysis, count) ==
    CASE type = "pie" ->
            /\ Len(analysis.measures) = 1
            /\ Len(analysis.dimensions) = 1
            /\ ~(analysis.dimensions[1].cardinality > 7)
      [] type = "histogram" ->
            /\ Len(analysis.measures) = 1
            /\ ~(Len(analysis.dimensions) + Len(analysis.dates) > 0)
      [] type = "scatter" ->
            /\ ~(Len(analysis.measures) < 2)
            /\ ~(count < 10)
      [] type = "line" ->
            /\ Len(analysis.measures) = 1
            /\ Len(analysis.dates) = 1
      [] type = "heatmap" ->
            /\ Len(analysis.dimensions) = 2
            /\ Len(analysis.measures) = 1
            /\ ~(\E i \in 1..Len(analysis.dimensions) :
                    analysis.dimensions[i].cardinalityLevel = "HIGH")
      [] OTHER -> TRUE

---------------------------------------------------------------------------
(* The chart variants of the column screen (src/src/MagicCharts.tsx).      *)
(* cols is the list of selected column names, types the map from column    *)
(* name to 'categorical', 'numeric' or 'date', and rows the optional rows: *)
(* a record of whether they were passed and, if so, the list of them.      *)

NoRows == [supplied |-> FALSE, list |-> <<>>]
SomeRows(list) == [supplied |-> TRUE, list |-> list]

\* types[cols[i]], i counted from 0: undefined past the end and for a name without type
TypeAt(cols, types, i) ==
    IF i < Len(cols) /\ cols[i + 1] \in DOMAIN types THEN types[cols[i + 1]] ELSE "undefined"

\* Array.from(new Set(rows.map(r => r[name]))).length
UniqueCount(list, name) == Cardinality({RowValue(list[i], name) : i \in 1..Len(list)})

\* the decimal value of a string of digits
RECURSIVE DecimalValue(_)
DecimalValue(s) ==
    IF s = <<>> THEN 0
    ELSE 10 * DecimalValue(SubSeq(s, 1, Len(s) - 1)) + DigitVal(s[Len(s)])

AllDigits(s) == \A i \in 1..Len(s) : IsDigit(s[i])

(* Number(s) of a string without sign: 0 of the empty string, the value of *)
(* a string of digits (leading zeros allowed) with or without the fraction *)
(* .0 or .5, NaN of the other strings of the model (words, dates with      *)
(* dashes).                                                                *)
UnsignedToNumber(s) ==
    IF s = <<>> THEN Num(0)
    ELSE IF AllDigits(s) THEN Num(DecimalValue(s))
    ELSE IF /\ Len(s) >= 3
            /\ s[Len(s) - 1] = "."
            /\ s[Len(s)] \in {"0", "5"}
            /\ AllDigits(SubSeq(s, 1, Len(s) - 2))
         THEN IF s[Len(s)] = "5" THEN Half(DecimalValue(SubSeq(s, 1, Len(s) - 2)))
              ELSE Num(DecimalValue(SubSeq(s, 1, Len(s) - 2)))
    ELSE NaN

\* Number(s) of a string: a minus sign in front of digits negates their value
StringToNumber(s) ==
    IF Len(s) >= 2 /\ s[1] = "-" /\ IsDigit(s[2])
    THEN LET positive == UnsignedToNumber(Tail(s))
         IN  IF positive.kind = "number" THEN [positive EXCEPT !.n = 0 - positive.n] ELSE NaN
    ELSE UnsignedToNumber(s)

\* Number(v): null is 0, undefined is NaN, a Date is its time value
ToNumber(v) ==
    CASE v.kind = "number" -> v
      [] v.kind = "NaN" -> NaN
      [] v.kind = "string" -> StringToNumber(v.s)
      [] v.kind = "null" -> Num(0)
      [] v.kind = "undefined" -> NaN
      [] v.kind = "Date" -> Num(v.n)

\* v !== undefined && v !== null && v !== ''   (line 314)
IsNonEmpty(v) == v # Undefined /\ v # Null /\ v # Str(<<>>)

\* a faulty variant of isNumericOrdinal: a single distinct value is enough
isNumericOrdinalFromOne(vals) ==
    LET nonEmpty == SelectSeq(vals, IsNonEmpty)
        unique == {ToNumber(nonEmpty[i]) : i \in 1..Len(nonEmpty)}
    IN  IF Len(nonEmpty) = 0 THEN FALSE
        ELSE IF ~(\A i \in 1..Len(nonEmpty) : NumberIsInteger(ToNumber(nonEmpty[i]))) THEN FALSE
        ELSE Cardinality(unique) >= 1 /\ Cardinality(unique) <= 10

\* isNumericOrdinal   (lines 313-321)
isNumericOrdinal(vals) ==
    LET nonEmpty == SelectSeq(vals, IsNonEmpty)
        unique == {ToNumber(nonEmpty[i]) : i \in 1..Len(nonEmpty)}
    IN  IF Len(nonEmpty) = 0 THEN FALSE
        ELSE IF ~(\A i \in 1..Len(nonEmpty) : NumberIsInteger(ToNumber(nonEmpty[i]))) THEN FALSE
        ELSE Cardinality(unique) >= 2 /\ Cardinality(unique) <= 10

\* rows.map(r => r[cols[0]])
FirstColumnValues(cols, list) == [i \in 1..Len(list) |-> RowValue(list[i], cols[1])]

\* Bar / count   (lines 48-59)
BarCount(cols, types, rows) ==
    IF Len(cols) # 1 THEN FALSE
    ELSE IF TypeAt(cols, types, 0) \notin {"categorical", "date"} THEN FALSE
    ELSE IF ~rows.supplied THEN TRUE
    ELSE UniqueCount(rows.list, cols[1]) <= 20

\* Bar / count_horizontal   (lines 60-71)
BarCountHorizontal(cols, types, rows) ==
    IF Len(cols) # 1 THEN FALSE
    ELSE IF TypeAt(cols, types, 0) # "categorical" THEN FALSE
    ELSE IF ~rows.supplied THEN TRUE
    ELSE UniqueCount(rows.list, cols[1]) <= 20

\* a faulty variant of Bar / single: the category or date has to come first
BarSingleCategoryFirst(cols, types, rows) ==
    /\ Len(cols) = 2
    /\ \/ TypeAt(cols, types, 0) = "categorical" /\ TypeAt(cols, types, 1) = "numeric"
       \/ TypeAt(cols, types, 0) = "date" /\ TypeAt(cols, types, 1) = "numeric"

\* Bar / single   (lines 72-82)
BarSingle(cols, types, rows) ==
    /\ Len(cols) = 2
    /\ \/ TypeAt(cols, types, 0) = "categorical" /\ TypeAt(cols, types, 1) = "numeric"
       \/ TypeAt(cols, types, 1) = "categorical" /\ TypeAt(cols, types, 0) = "numeric"
       \/ TypeAt(cols, types, 0) = "date" /\ TypeAt(cols, types, 1) = "numeric"
       \/ TypeAt(cols, types, 1) = "date" /\ TypeAt(cols, types, 0) = "numeric"

\* Bar / single_horizontal   (lines 83-90)
BarSingleHorizontal(cols, types, rows) ==
    /\ Len(cols) = 2
    /\ \/ TypeAt(cols, types, 0) = "categorical" /\ TypeAt(cols, types, 1) = "numeric"
       \/ TypeAt(cols, types, 1) = "categorical" /\ TypeAt(cols, types, 0) = "numeric"

\* a faulty variant of Bar / multi: up to 20 distinct categories are accepted
BarMultiUpToTwenty(cols, types, rows) ==
    IF Len(cols) # 2 THEN FALSE
    ELSE LET catIdx == IF TypeAt(cols, types, 0) = "categorical" THEN 0
                       ELSE IF TypeAt(cols, types, 1) = "categorical" THEN 1 ELSE -1
             numIdx == IF catIdx = 0 THEN 1 ELSE IF catIdx = 1 THEN 0 ELSE -1
         IN  IF catIdx = -1 \/ numIdx = -1 THEN FALSE
             ELSE IF \/ TypeAt(cols, types, catIdx) # "categorical"
                     \/ TypeAt(cols, types, numIdx) # "numeric" THEN FALSE
             ELSE IF ~rows.supplied THEN FALSE
             ELSE UniqueCount(rows.list, cols[catIdx + 1]) <= 20

\* Bar / multi   (lines 91-105)
BarMulti(cols, types, rows) ==
    IF Len(cols) # 2 THEN FALSE
    ELSE LET catIdx == IF TypeAt(cols, types, 0) = "categorical" THEN 0
                       ELSE IF TypeAt(cols, types, 1) = "categorical" THEN 1 ELSE -1
             numIdx == IF catIdx = 0 THEN 1 ELSE IF catIdx = 1 THEN 0 ELSE -1
         IN  IF catIdx = -1 \/ numIdx = -1 THEN FALSE
             ELSE IF \/ TypeAt(cols, types, catIdx) # "categorical"
                     \/ TypeAt(cols, types, numIdx) # "numeric" THEN FALSE
             ELSE IF ~rows.supplied THEN FALSE
             ELSE UniqueCount(rows.list, cols[catIdx + 1]) <= 7

\* Bar / multi_horizontal   (lines 106-119)
BarMultiHorizontal(cols, types, rows) ==
    IF Len(cols) # 2 THEN FALSE
    ELSE LET catIdx == IF TypeAt(cols, types, 0) = "categorical" THEN 0
                       ELSE IF TypeAt(cols, types, 1) = "categorical" THEN 1 ELSE -1
             numIdx == IF catIdx = 0 THEN 1 ELSE IF catIdx = 1 THEN 0 ELSE -1
         IN  IF catIdx = -1 \/ numIdx = -1 THEN FALSE
             ELSE IF \/ TypeAt(cols, types, catIdx) # "categorical"
                     \/ TypeAt(cols, types, numIdx) # "numeric" THEN FALSE
             ELSE IF ~rows.supplied THEN FALSE
             ELSE UniqueCount(rows.list, cols[catIdx + 1]) <= 7

\* cols.slice(1).every(c => types[c] === 'numeric')
RestAreNumeric(cols, types) == \A i \in 1..(Len(cols) - 1) : TypeAt(cols, types, i) = "numeric"

\* the first alternative of the grouped, stacked and proportional bars: two dimensions
TwoDimensionsAndMeasure(cols, types) ==
    /\ Len(cols) = 3
    /\ \/ /\ TypeAt(cols, types, 0) = "date"
          /\ TypeAt(cols, types, 1) = "categorical"
          /\ TypeAt(cols, types, 2) = "numeric"
       \/ /\ TypeAt(cols, types, 0) = "categorical"
          /\ TypeAt(cols, types, 1) = "categorical"
          /\ TypeAt(cols, types, 2) = "numeric"

\* the second alternative: one dimension or date and measures after it
DimensionAndMeasures(cols, types) ==
    /\ Len(cols) >= 3
    /\ TypeAt(cols, types, 0) = "categorical" \/ TypeAt(cols, types, 0) = "date"
    /\ RestAreNumeric(cols, types)

\* Bar / grouped   (lines 120-129)
BarGrouped(cols, types, rows) ==
    TwoDimensionsAndMeasure(cols, types) \/ DimensionAndMeasures(cols, types)

\* a faulty variant of Bar / stacked: the alternative of several measures is left out
BarStackedTwoDimensionsOnly(cols, types, rows) == TwoDimensionsAndMeasure(cols, types)

\* Bar / stacked   (lines 130-138)
BarStacked(cols, types, rows) ==
    TwoDimensionsAndMeasure(cols, types) \/ DimensionAndMeasures(cols, types)

\* Bar / proportional   (lines 139-147)
BarProportional(cols, types, rows) ==
    TwoDimensionsAndMeasure(cols, types) \/ DimensionAndMeasures(cols, types)

\* the body the three line variants share, from their least number of columns
LineFrom(least, cols, types, rows) ==
    IF Len(cols) < least THEN FALSE
    ELSE IF TypeAt(cols, types, 0) = "date" THEN TRUE
    ELSE IF /\ TypeAt(cols, types, 0) = "numeric"
            /\ rows.supplied
            /\ isNumericOrdinal(FirstColumnValues(cols, rows.list)) THEN TRUE
    ELSE FALSE

\* Line / simple   (lines 150-160)
LineSimple(cols, types, rows) == LineFrom(2, cols, types, rows)

\* Line / multi   (lines 161-171)
LineMulti(cols, types, rows) == LineFrom(3, cols, types, rows)

\* Line / area   (lines 172-182)
LineArea(cols, types, rows) == LineFrom(2, cols, types, rows)

\* Pie / standard   (lines 185-193)
PieStandard(cols, types, rows) ==
    \/ /\ Len(cols) = 2
       /\ \/ TypeAt(cols, types, 0) = "categorical" /\ TypeAt(cols, types, 1) = "numeric"
          \/ TypeAt(cols, types, 1) = "categorical" /\ TypeAt(cols, types, 0) = "numeric"
    \/ Len(cols) = 1 /\ TypeAt(cols, types, 0) = "categorical"

\* Pie / donut   (lines 194-202)
PieDonut(cols, types, rows) ==
    \/ /\ Len(cols) = 2
       /\ \/ TypeAt(cols, types, 0) = "categorical" /\ TypeAt(cols, types, 1) = "numeric"
          \/ TypeAt(cols, types, 1) = "categorical" /\ TypeAt(cols, types, 0) = "numeric"
    \/ Len(cols) = 1 /\ TypeAt(cols, types, 0) = "categorical"

\* Pie / count   (lines 203-209)
PieCount(cols, types, rows) == Len(cols) = 1 /\ TypeAt(cols, types, 0) = "categorical"

\* Scatter / simple   (lines 212-224)
ScatterSimple(cols, types, rows) ==
    IF Len(cols) # 2 THEN FALSE
    ELSE LET t0 == TypeAt(cols, types, 0)
             t1 == TypeAt(cols, types, 1)
         IN  IF t0 = "numeric" /\ t1 = "numeric" THEN TRUE
             ELSE IF \/ t0 = "categorical" /\ t1 = "numeric"
                     \/ t0 = "numeric" /\ t1 = "categorical" THEN TRUE
             ELSE FALSE

\* Scatter / bubble   (lines 225-230)
ScatterBubble(cols, types, rows) ==
    Len(cols) = 3 /\ \A i \in 0..(Len(cols) - 1) : TypeAt(cols, types, i) = "numeric"

\* Histogram / standard   (lines 233-238)
HistogramStandard(cols, types, rows) ==
    Len(cols) = 1 /\ TypeAt(cols, types, 0) = "numeric"

\* CHART_VARIANTS   (lines 46-240): the families and the keys of their variants, in order
CHART_VARIANTS ==
    << [type |-> "Bar",
        keys |-> <<"count", "count_horizontal", "single", "single_horizontal", "multi",
                   "multi_horizontal", "grouped", "stacked", "proportional">>],
       [type |-> "Line", keys |-> <<"simple", "multi", "area">>],
       [type |-> "Pie", keys |-> <<"standard", "donut", "count">>],
       [type |-> "Scatter", keys |-> <<"simple", "bubble">>],
       [type |-> "Histogram", keys |-> <<"standard">>] >>

\* variant.isCompatible(cols, types, rows) of the variant of a family and key
isCompatible(variant, cols, types, rows) ==
    CASE variant = <<"Bar", "count">> -> BarCount(cols, types, rows)
      [] variant = <<"Bar", "count_horizontal">> -> BarCountHorizontal(cols, types, rows)
      [] variant = <<"Bar", "single">> -> BarSingle(cols, types, rows)
      [] variant = <<"Bar", "single_horizontal">> -> BarSingleHorizontal(cols, types, rows)
      [] variant = <<"Bar", "multi">> -> BarMulti(cols, types, rows)
      [] variant = <<"Bar", "multi_horizontal">> -> BarMultiHorizontal(cols, types, rows)
      [] variant = <<"Bar", "grouped">> -> BarGrouped(cols, types, rows)
      [] variant = <<"Bar", "stacked">> -> BarStacked(cols, types, rows)
      [] variant = <<"Bar", "proportional">> -> BarProportional(cols, types, rows)
      [] variant = <<"Line", "simple">> -> LineSimple(cols, types, rows)
      [] variant = <<"Line", "multi">> -> LineMulti(cols, types, rows)
      [] variant = <<"Line", "area">> -> LineArea(cols, types, rows)
      [] variant = <<"Pie", "standard">> -> PieStandard(cols, types, rows)
      [] variant = <<"Pie", "donut">> -> PieDonut(cols, types, rows)
      [] variant = <<"Pie", "count">> -> PieCount(cols, types, rows)
      [] variant = <<"Scatter", "simple">> -> ScatterSimple(cols, types, rows)
      [] variant = <<"Scatter", "bubble">> -> ScatterBubble(cols, types, rows)
      [] variant = <<"Histogram", "standard">> -> HistogramStandard(cols, types, rows)

\* CHART_VARIANTS[type] || []: the variants of a family in the order of the table
VariantsOf(type) ==
    LET found == SelectSeq(CHART_VARIANTS, LAMBDA f : f.type = type)
    IN  IF found = <<>> THEN <<>>
        ELSE [i \in 1..Len(found[1].keys) |-> <<type, found[1].keys[i]>>]

\* Object.values(CHART_VARIANTS).flat()
AllVariants ==
    VariantsOf("Bar") \o VariantsOf("Line") \o VariantsOf("Pie") \o VariantsOf("Scatter")
    \o VariantsOf("Histogram")

\* some variant of the list accepts the columns
SomeCompatible(variants, cols, types, rows) ==
    \E i \in 1..Len(variants) : isCompatible(variants[i], cols, types, rows)

\* selected.includes(col)
Includes(list, x) == \E i \in 1..Len(list) : list[i] = x

\* a faulty variant of isColumnAddable: the column is put before the selection
isColumnAddableInFront(col, selected, columns, types, list) ==
    IF Includes(selected, col) THEN TRUE
    ELSE SomeCompatible(AllVariants, <<col>> \o selected, types, SomeRows(list))

\* isColumnAddable   (lines 346-359)
isColumnAddable(col, selected, columns, types, list) ==
    IF Includes(selected, col) THEN TRUE
    ELSE LET newSelection == Append(selected, col)
         IN  SomeCompatible(AllVariants, newSelection, types, SomeRows(list))

RECURSIVE CombinationsFrom(_, _, _)
RECURSIVE combinations(_, _)
\* combinations   (lines 379-388), for k >= 1
combinations(arr, k) ==
    IF k = 1 THEN [i \in 1..Len(arr) |-> <<arr[i]>>]
    ELSE CombinationsFrom(arr, k, 1)

\* arr.forEach of lines 382-386, from the element of index i on
CombinationsFrom(arr, k, i) ==
    IF i > Len(arr) THEN <<>>
    ELSE LET tails == combinations(SubSeq(arr, i + 1, Len(arr)), k - 1)
         IN  [j \in 1..Len(tails) |-> <<arr[i]>> \o tails[j]] \o CombinationsFrom(arr, k, i + 1)

\* the combinations of 1, 2, ... up to Math.min(4, columns.length) columns, in the order tried
CombinationsTried(columns) ==
    LET upTo == IF Len(columns) < 4 THEN Len(columns) ELSE 4
        sized == [k \in 1..upTo |-> combinations(columns, k)]
    IN  Flatten(sized, 1)

NoColumns == [found |-> FALSE, combo |-> <<>>]

\* a faulty variant of getAutoSelectColumns: the variants of every family are tried
getAutoSelectColumnsOfAnyFamily(type, columns, types, list) ==
    LET accepted == SelectSeq(CombinationsTried(columns),
                                LAMBDA combo : SomeCompatible(AllVariants, combo, types,
                                                              SomeRows(list)))
    IN  IF accepted = <<>> THEN NoColumns ELSE [found |-> TRUE, combo |-> accepted[1]]

\* getAutoSelectColumns   (lines 362-376): null is NoColumns
getAutoSelectColumns(type, columns, types, list) ==
    LET variants == IF type = "All" THEN AllVariants ELSE VariantsOf(type)
        accepted == SelectSeq(CombinationsTried(columns),
                                LAMBDA combo : SomeCompatible(variants, combo, types,
                                                              SomeRows(list)))
    IN  IF accepted = <<>> THEN NoColumns ELSE [found |-> TRUE, combo |-> accepted[1]]

---------------------------------------------------------------------------
(* The binning of the histogram (src/src/MagicCharts.tsx, lines 2012-2026, *)
(* and the same for the sample charts, lines 1180-1194).  Numbers are kept *)
(* as twice their value, which leaves the quotient (v - min) / binSize as  *)
(* it is; the quotient is computed exactly, where the code rounds it: the  *)
(* rounding can move a value on the edge of a bin to the bin next to it,   *)
(* never out of the bins.                                                  *)

\* !isNaN(v)
NotNaN(v) == v.kind # "NaN"

\* rows.map(r => Number(r[col])).filter(v => !isNaN(v))
NumbersOf(cells) == SelectSeq([i \in 1..Len(cells) |-> ToNumber(cells[i])], NotNaN)

\* Math.ceil(Math.log2(n)) for n >= 1: the least c with 2^c >= n
CeilLog2(n) == CHOOSE c \in 0..n : 2^c >= n /\ \A b \in 0..(c - 1) : 2^b < n

\* Math.max(5, Math.min(30, Math.ceil(Math.log2(n) + 1)))
SturgesBinCount(n) ==
    LET sturges == CeilLog2(n) + 1
        capped == IF sturges < 30 THEN sturges ELSE 30
    IN  IF capped > 5 THEN capped ELSE 5

\* Math.min(...values) and Math.max(...values), as twice the value
MinOf(nums) == CHOOSE m \in {nums[i].n : i \in 1..Len(nums)} : \A i \in 1..Len(nums) : m <= nums[i].n
MaxOf(nums) == CHOOSE m \in {nums[i].n : i \in 1..Len(nums)} : \A i \in 1..Len(nums) : m >= nums[i].n

NaNIndex == [nan |-> TRUE, bin |-> 0]
BinIndex(b) == [nan |-> FALSE, bin |-> b]

(* idx of lines 2023-2024.  With max = min the bin size is 0 and the       *)
(* quotient 0 / 0 is NaN: Math.floor gives NaN, which is not binCount.     *)
IndexOf(v, min, max, binCount) ==
    IF max = min THEN NaNIndex
    ELSE LET idx == ((v.n - min) * binCount) \div (max - min)
         IN  IF idx = binCount THEN BinIndex(binCount - 1) ELSE BinIndex(idx)

NoHistogram == [drawn |-> FALSE]

(* Lines 2012-2026.  counts[idx]++ with idx NaN sets the property 'NaN' of *)
(* the array and leaves its elements alone: stray counts those values.     *)
binHistogram(cells) ==
    LET nums == NumbersOf(cells)
    IN  IF Len(nums) = 0 THEN NoHistogram
        ELSE LET binCount == SturgesBinCount(Len(nums))
                 min == MinOf(nums)
                 max == MaxOf(nums)
                 indexes == [i \in 1..Len(nums) |-> IndexOf(nums[i], min, max, binCount)]
             IN  [drawn |-> TRUE,
                  binned |-> nums,
                  binCount |-> binCount,
                  min |-> min,
                  max |-> max,
                  indexes |-> indexes,
                  counts |-> [b \in 0..(binCount - 1) |->
                                 Cardinality({i \in 1..Len(nums) :
                                                 ~indexes[i].nan /\ indexes[i].bin = b})],
                  stray |-> Cardinality({i \in 1..Len(nums) : indexes[i].nan})]

---------------------------------------------------------------------------
(* The datasets of the grouped, stacked and proportional bars              *)
(* (src/src/MagicCharts.tsx, lines 1564-1657).  The numbers of a dataset   *)
(* are kept as fractions num / den, so that a share of a total is exact,   *)
(* where the code rounds it to the nearest double.                         *)

Fraction(num, den) == [kind |-> "number", num |-> num, den |-> den]
NaNFraction == [kind |-> "NaN", num |-> 0, den |-> 1]

\* a number of the rows, kept as twice its value, as a fraction
AsFraction(v) == IF v.kind = "number" THEN Fraction(v.n, 2) ELSE NaNFraction

\* v || 0 of a cell or a number: 0 for undefined, null, '', 0 and NaN
OrZero(v) ==
    IF \/ v.kind \in {"undefined", "null", "NaN"}
       \/ v = Str(<<>>)
       \/ (v.kind = "number" /\ v.n = 0)
    THEN Num(0)
    ELSE v

\* a + b of two numbers
Plus(a, b) ==
    IF a.kind = "NaN" \/ b.kind = "NaN" THEN NaN ELSE [a EXCEPT !.n = a.n + b.n]

\* filtered.reduce((acc, r) => acc + Number(r[col] || 0), 0)
RECURSIVE SumOfColumn(_, _)
SumOfColumn(filtered, col) ==
    IF filtered = <<>> THEN Num(0)
    ELSE Plus(SumOfColumn(SubSeq(filtered, 1, Len(filtered) - 1), col),
              ToNumber(OrZero(RowValue(filtered[Len(filtered)], col))))

\* datasets.reduce((acc, ds) => acc + (ds.data[g] || 0), 0), as twice the total
RECURSIVE GroupTotal(_, _)
GroupTotal(datasets, g) ==
    IF datasets = <<>> THEN 0
    ELSE GroupTotal(SubSeq(datasets, 1, Len(datasets) - 1), g)
         + OrZero(datasets[Len(datasets)].points[g]).n

\* the guard of the normalization (lines 1582 and 1651)
IsNormalized(groupTotal) == groupTotal > 0

(* Lines 1579-1588 and 1648-1657: the numbers of a group with a total      *)
(* above 0 become 100 * (ds.data[g] || 0) / groupTotal, the numbers of the *)
(* other groups are left as they are.                                      *)
normalizeGroups(datasets, groupCount) ==
    [d \in 1..Len(datasets) |->
        [label |-> datasets[d].label,
         points |-> [g \in 1..groupCount |->
                       LET groupTotal == GroupTotal(datasets, g)
                       IN  IF IsNormalized(groupTotal)
                           THEN Fraction(100 * OrZero(datasets[d].points[g]).n, groupTotal)
                           ELSE AsFraction(datasets[d].points[g])]]]

\* the numbers of the datasets as fractions, for the variants that do not normalize
asDrawn(datasets, groupCount) ==
    [d \in 1..Len(datasets) |->
        [label |-> datasets[d].label,
         points |-> [g \in 1..groupCount |-> AsFraction(datasets[d].points[g])]]]

\* rows.filter(r => r[groupCol] === g)
RowsOfGroup(list, groupCol, g) ==
    LET InGroup(r) == RowValue(r, groupCol) = g IN SelectSeq(list, InGroup)

\* the chart of lines 1613-1626 and 1682-1695
BarChartOf(key, groups, datasets) ==
    [drawn |-> TRUE,
     labels |-> groups,
     sums |-> datasets,
     datasets |-> IF key = "proportional" THEN normalizeGroups(datasets, Len(groups))
                  ELSE asDrawn(datasets, Len(groups))]

\* lines 1567-1577: one dataset per numeric column, one number per group of the first column
MeasureDatasets(cols, list) ==
    LET groupCol == cols[1]
        valueCols == Tail(cols)
        groups == Unique([i \in 1..Len(list) |-> RowValue(list[i], groupCol)])
    IN  [groups |-> groups,
         datasets |-> [d \in 1..Len(valueCols) |->
                         [label |-> valueCols[d],
                          points |-> [g \in 1..Len(groups) |->
                                        SumOfColumn(RowsOfGroup(list, groupCol, groups[g]),
                                                    valueCols[d])]]]]

\* the characters of the model in the order of their UTF-16 code units
CharOrder == <<"-", ".", "/">> \o Digits \o UpperCase \o LowerCase
CodeOf(c) == CHOOSE k \in 1..Len(CharOrder) : CharOrder[k] = c

\* a < b of two strings: by the first code unit that differs, a prefix first
RECURSIVE LessString(_, _)
LessString(a, b) ==
    IF b = <<>> THEN FALSE
    ELSE IF a = <<>> THEN TRUE
    ELSE IF a[1] = b[1] THEN LessString(Tail(a), Tail(b))
    ELSE CodeOf(a[1]) < CodeOf(b[1])

\* Array.prototype.sort() of distinct strings: ascending by code units
sortStrings(xs) ==
    [k \in 1..Len(xs) |->
        CHOOSE x \in {xs[i] : i \in 1..Len(xs)} :
            Cardinality({i \in 1..Len(xs) : LessString(xs[i].s, x.s)}) = k - 1]

\* rows.filter(r => r[dateCol] === g && r[catCol] === s)
RowsOfPair(list, dateCol, g, catCol, s) ==
    LET InPair(r) == RowValue(r, dateCol) = g /\ RowValue(r, catCol) = s
    IN  SelectSeq(list, InPair)

\* lines 1630-1646: one dataset per category, one number per date, the dates sorted
PivotDatasets(cols, list) ==
    LET dateCol == cols[1]
        catCol == cols[2]
        valueCol == cols[3]
        groups == sortStrings(Unique([i \in 1..Len(list) |-> RowValue(list[i], dateCol)]))
        series == Unique([i \in 1..Len(list) |-> RowValue(list[i], catCol)])
    IN  [groups |-> groups,
         datasets |-> [d \in 1..Len(series) |->
                         [label |-> series[d],
                          points |-> [g \in 1..Len(groups) |->
                                        SumOfColumn(RowsOfPair(list, dateCol, groups[g],
                                                               catCol, series[d]),
                                                    valueCol)]]]]

NoChart == [drawn |-> FALSE]

(* The grouped, stacked and proportional bars of a selection               *)
(* (lines 1564-1697): nothing is drawn of a selection of neither form.     *)
renderStackedBars(key, cols, types, list) ==
    IF ~(key \in {"grouped", "stacked", "proportional"} /\ Len(cols) >= 3) THEN NoChart
    ELSE IF TypeAt(cols, types, 0) \in {"categorical", "date"} /\ RestAreNumeric(cols, types)
    THEN LET sums == MeasureDatasets(cols, list)
         IN  BarChartOf(key, sums.groups, sums.datasets)
    ELSE IF /\ TypeAt(cols, types, 0) = "date"
            /\ TypeAt(cols, types, 1) = "categorical"
            /\ TypeAt(cols, types, 2) = "numeric"
    THEN LET sums == PivotDatasets(cols, list)
         IN  BarChartOf(key, sums.groups, sums.datasets)
    ELSE IF /\ TypeAt(cols, types, 0) = "categorical"
            /\ TypeAt(cols, types, 1) = "categorical"
            /\ TypeAt(cols, types, 2) = "numeric"
    THEN LET sums == MeasureDatasets(cols, list)   \* lines 1698-1708: slice(1) again
         IN  BarChartOf(key, sums.groups, sums.datasets)
    ELSE NoChart

---------------------------------------------------------------------------
(* The datasets of the line charts (src/src/MagicCharts.tsx, lines         *)
(* 1842-1949, and the same of the sample charts from line 1073).           *)

NullPoint == [kind |-> "null", num |-> 0, den |-> 1]

\* sum / filtered.length, of a sum kept as twice its value
MeanOf(sum, count) == IF sum.kind = "number" THEN Fraction(sum.n, 2 * count) ELSE NaNFraction

\* lines 1848-1870: one dataset per category, one mean or null per date, the dates sorted
LinePivot(cols, list) ==
    LET dateCol == cols[1]
        catCol == cols[2]
        valueCol == cols[3]
        dates == sortStrings(Unique([i \in 1..Len(list) |-> RowValue(list[i], dateCol)]))
        categories == Unique([i \in 1..Len(list) |-> RowValue(list[i], catCol)])
    IN  [drawn |-> TRUE,
         labels |-> dates,
         datasets |-> [c \in 1..Len(categories) |->
                         [label |-> categories[c],
                          points |-> [d \in 1..Len(dates) |->
                                        LET filtered == RowsOfPair(list, dateCol, dates[d],
                                                                   catCol, categories[c])
                                        IN  IF Len(filtered) = 0 THEN NullPoint
                                            ELSE MeanOf(SumOfColumn(filtered, valueCol),
                                                        Len(filtered))]]]]

\* lines 1890-1896: one dataset per category, the number of rows per date, the dates sorted
LineCounts(cols, types, list) ==
    LET dateCol == IF TypeAt(cols, types, 0) = "date" THEN cols[1] ELSE cols[2]
        catCol == IF TypeAt(cols, types, 0) = "categorical" THEN cols[1] ELSE cols[2]
        dates == sortStrings(Unique([i \in 1..Len(list) |-> RowValue(list[i], dateCol)]))
        categories == Unique([i \in 1..Len(list) |-> RowValue(list[i], catCol)])
    IN  [drawn |-> TRUE,
         labels |-> dates,
         datasets |-> [c \in 1..Len(categories) |->
                         [label |-> categories[c],
                          points |-> [d \in 1..Len(dates) |->
                                        Fraction(Len(RowsOfPair(list, dateCol, dates[d],
                                                                catCol, categories[c])), 1)]]]]

\* lines 1920-1948: the rows as they come, the second column as numbers
LineDefault(cols, list) ==
    [drawn |-> TRUE,
     labels |-> [i \in 1..Len(list) |-> RowValue(list[i], cols[1])],
     datasets |-> << [label |-> Str(<<>>),
                      points |-> [i \in 1..Len(list) |->
                                    IF Len(cols) >= 2
                                    THEN AsFraction(ToNumber(RowValue(list[i], cols[2])))
                                    ELSE NaNFraction]] >>]

\* the line chart of a selection (lines 1842-1949)
renderLine(cols, types, list) ==
    IF /\ Len(cols) = 3
       /\ TypeAt(cols, types, 0) = "date"
       /\ TypeAt(cols, types, 1) = "categorical"
       /\ TypeAt(cols, types, 2) = "numeric"
    THEN LinePivot(cols, list)
    ELSE IF /\ Len(cols) = 2
            /\ \/ TypeAt(cols, types, 0) = "date" /\ TypeAt(cols, types, 1) = "categorical"
               \/ TypeAt(cols, types, 0) = "categorical" /\ TypeAt(cols, types, 1) = "date"
    THEN LineCounts(cols, types, list)
    ELSE LineDefault(cols, list)

---------------------------------------------------------------------------
(* aggregateByCategory (src/src/MagicCharts.tsx, lines 280-298).  The      *)
(* result is an object: its keys are strings, and Object.keys and          *)
(* Object.values list the keys that are array indexes first, in ascending  *)
(* numeric order, and the other keys after them in the order in which they *)
(* were created.  Sums are kept as twice their value.                      *)

\* the property key of a cell: the string itself, 'undefined' or 'null'
PropertyKey(v) ==
    CASE v.kind = "string" -> v.s
      [] v.kind = "undefined" -> <<"u","n","d","e","f","i","n","e","d">>
      [] v.kind = "null" -> <<"n","u","l","l">>

\* the key is the canonical string of an integer from 0: digits without a leading zero
IsArrayIndex(key) == key # <<>> /\ AllDigits(key) /\ (key[1] # "0" \/ Len(key) = 1)

\* the position of a key among the entries of the object, 0 if it has none
EntryOf(entries, key) ==
    IF \E e \in 1..Len(entries) : entries[e].key = key
    THEN CHOOSE e \in 1..Len(entries) : entries[e].key = key
    ELSE 0

\* result[cat] = (result[cat] || 0) + amount
AddTo(entries, key, amount) ==
    LET e == EntryOf(entries, key)
    IN  IF e = 0 THEN Append(entries, [key |-> key, twice |-> amount])
        ELSE [entries EXCEPT ![e].twice = @ + amount]

\* the body of the forEach (lines 287-295) for the k-th row, the entries being as given
AggregateRow(entries, list, categoryCol, valueCol, k) ==
    LET cat == PropertyKey(RowValue(list[k], categoryCol))
    IN  IF valueCol # ""
        THEN LET val == ToNumber(RowValue(list[k], valueCol))
             IN  IF val.kind # "NaN" THEN AddTo(entries, cat, val.n) ELSE entries
        ELSE AddTo(entries, cat, 2)

(* The entries after a run of the forEach that left earlier and a run      *)
(* after it that would have left later of an empty object: the keys in the *)
(* order they were first assigned, each with the sum of its amounts.       *)
EntriesAfter(earlier, later) ==
    LET keys == Unique([e \in 1..Len(earlier) |-> earlier[e].key]
                       \o [e \in 1..Len(later) |-> later[e].key])
        TwiceIn(entries, key) ==
            IF EntryOf(entries, key) = 0 THEN 0 ELSE entries[EntryOf(entries, key)].twice
    IN  [k \in 1..Len(keys) |->
            [key |-> keys[k], twice |-> TwiceIn(earlier, keys[k]) + TwiceIn(later, keys[k])]]

(* The forEach (lines 287-295) over the rows from the lo-th to the hi-th,  *)
(* halved so that the evaluation does not nest as deep as there are rows.  *)
RECURSIVE AggregateRange(_, _, _, _, _)
AggregateRange(list, categoryCol, valueCol, lo, hi) ==
    IF hi < lo THEN <<>>
    ELSE IF hi = lo THEN AggregateRow(<<>>, list, categoryCol, valueCol, lo)
    ELSE LET mid == (lo + hi) \div 2
         IN  EntriesAfter(AggregateRange(list, categoryCol, valueCol, lo, mid),
                          AggregateRange(list, categoryCol, valueCol, mid + 1, hi))

\* the forEach (lines 287-295) for the rows up to the k-th
AggregateRows(list, categoryCol, valueCol, k) == AggregateRange(list, categoryCol, valueCol, 1, k)

\* the entries in the order of Object.keys: array indexes ascending, then the others
ownPropertyKeys(entries) ==
    LET IsIndex(e) == IsArrayIndex(e.key)
        IsOther(e) == ~IsArrayIndex(e.key)
        indexes == SelectSeq(entries, IsIndex)
        ascending == [k \in 1..Len(indexes) |->
                        CHOOSE e \in {indexes[i] : i \in 1..Len(indexes)} :
                            Cardinality({i \in 1..Len(indexes) :
                                DecimalValue(indexes[i].key) < DecimalValue(e.key)}) = k - 1]
    IN  ascending \o SelectSeq(entries, IsOther)

\* { labels: Object.keys(result), values: Object.values(result) }; valueCol '' for null
aggregateByCategory(list, categoryCol, valueCol) ==
    LET entries == ownPropertyKeys(AggregateRows(list, categoryCol, valueCol, Len(list)))
    IN  [labels |-> [e \in 1..Len(entries) |-> entries[e].key],
         values |-> [e \in 1..Len(entries) |-> entries[e].twice]]

---------------------------------------------------------------------------
(* The pie charts (src/src/MagicCharts.tsx, lines 1261-1303).              *)

\* lines 1262-1275: the aggregate of [categorical] or [categorical, numeric], or null
PieAggregate(cols, types, list) ==
    IF Len(cols) = 1 /\ TypeAt(cols, types, 0) = "categorical"
    THEN [built |-> TRUE] @@ aggregateByCategory(list, cols[1], "")
    ELSE IF /\ Len(cols) = 2
            /\ TypeAt(cols, types, 0) = "categorical"
            /\ TypeAt(cols, types, 1) = "numeric"
    THEN [built |-> TRUE] @@ aggregateByCategory(list, cols[1], cols[2])
    ELSE [built |-> FALSE]

\* if (!agg || agg.labels.length > 20) return; else the chart of the aggregate
renderPie(cols, types, list) ==
    LET agg == PieAggregate(cols, types, list)
    IN  IF ~agg.built THEN NoChart
        ELSE IF Len(agg.labels) > 20 THEN NoChart
        ELSE [drawn |-> TRUE, labels |-> agg.labels, values |-> agg.values]

---------------------------------------------------------------------------
(* The inputs of the model.                                                *)

NameDate == <<"D","a","t","e">>
NamePlatform == <<"P","l","a","t","f","o","r","m">>
NameCategory == <<"C","a","t","e","g","o","r","y">>
NameFollowers == <<"F","o","l","l","o","w","e","r","s">>
NameMarketShare == <<"M","a","r","k","e","t","S","h","a","r","e">>
NameId == <<"I","d">>
NameMarket == <<"M","a","r","k","e","t">>
NameNotes == <<"N","o","t","e","s">>
NameSales == <<"S","a","l","e","s">>
NameSegment == <<"S","e","g","m","e","n","t">>
NameRegion == <<"R","e","g","i","o","n">>
NameMissing == <<"M","i","s","s","i","n","g">>
NameRevenue == <<"R","e","v","e","n","u","e">>
NameProfit == <<"P","r","o","f","i","t">>
NameCost == <<"C","o","s","t">>
NameYear == <<"Y","e","a","r">>
NameMonth == <<"M","o","n","t","h">>
NameWeek == <<"W","e","e","k">>

\* the chart types the rule table pushes, and one it does not know
ChartTypes ==
    {"histogram", "bar", "pie", "line", "scatter", "grouped_bar", "stacked_area",
     "stacked_bar", "heatmap", "radar", "parallel_coordinates", "treemap", "density",
     "map", "table", "sankey"}

\* the chart types validateChartSuggestion has a rule for   (lines 433-465)
ValidatedTypes == {"pie", "histogram", "scatter", "line", "heatmap"}

\* the chart types asked about: those with a rule, and some without
AskedTypes == ValidatedTypes \cup {"bar", "table", "sankey"}

(* Columns given to determineDataType: ints distinct integers, dup more    *)
(* copies of the first of them, frac halves, date strings, year strings,   *)
(* Date instances, other words and NaNs.                                   *)
Column(ints, dup, frac, dateStrs, years, dateObjs, others, nans) ==
    [i \in 1..ints |-> Num(i)]
    \o [i \in 1..dup |-> Num(1)]
    \o [i \in 1..frac |-> Half(i)]
    \o [i \in 1..dateStrs |-> DateStr(i)]
    \o [i \in 1..years |-> YearStr(i)]
    \o [i \in 1..dateObjs |-> DateObj(i)]
    \o [i \in 1..others |-> Word(i)]
    \o [i \in 1..nans |-> NaN]

(* The cell of row i (from 0) of a dataset, by column.  Id holds distinct  *)
(* integers, Followers distinct halves, Notes a word per row and null in   *)
(* row 0, Market the values USA, UK and a word.                            *)
Cell(name, i) ==
    CASE name = NameDate -> DateStr(i \div 3)
      [] name = NamePlatform -> Word(i % 3)
      [] name = NameCategory -> Word(i % 8)
      [] name = NameFollowers -> Half(i)
      [] name = NameMarketShare -> Half(i % 4)
      [] name = NameId -> Num(i)
      [] name = NameMarket ->
            IF i % 3 = 0 THEN Str(<<"U","S","A">>)
            ELSE IF i % 3 = 1 THEN Str(<<"U","K">>) ELSE Word(i)
      [] name = NameNotes -> IF i = 0 THEN Null ELSE Word(i)

Columns ==
    {NameDate, NamePlatform, NameCategory, NameFollowers, NameMarketShare, NameId,
     NameMarket, NameNotes}

Dataset(rows) == [i \in 1..rows |-> [name \in Columns |-> Cell(name, i - 1)]]

\* the row counts of the datasets: none, a few, more than LOW
RowCounts == {0, 5, MaxRows}

Datasets == [rows \in RowCounts |-> Dataset(rows)]

\* the ordered lists of at most k distinct names
RECURSIVE Selections(_, _)
Selections(names, k) ==
    IF k = 0 THEN {<<>>}
    ELSE LET shorter == Selections(names, k - 1)
         IN  shorter \cup
             UNION {{Append(sel, name) :
                        name \in {m \in names : \A i \in 1..Len(sel) : sel[i] # m}} :
                    sel \in {s \in shorter : Len(s) = k - 1}}

(* Field descriptors given to applyTableauRules, of the shape analyzeField *)
(* returns (lines 22-30) for a column without nulls of k distinct values.  *)
Descriptor(name, type, k, vals) ==
    [name |-> name,
     type |-> type,
     cardinality |-> k,
     cardinalityLevel |-> getCardinalityLevel(k),
     uniqueValues |-> Slice(vals, 10),
     hasNulls |-> FALSE,
     sampleValues |-> Slice(vals, 5)]

\* a dimension of k distinct words, the first of them "USA" when geo
DimensionField(name, k, geo) ==
    Descriptor(name, "DIMENSION", k,
               [i \in 1..k |-> IF geo /\ i = 1 THEN Str(<<"U","S","A">>) ELSE Word(i)])

\* a measure of 2 distinct halves
MeasureField(name) == Descriptor(name, "MEASURE", 2, [i \in 1..2 |-> Half(i)])

\* a date of 1 date string
DateField(name) == Descriptor(name, "DATE", 1, [i \in 1..1 |-> DateStr(i)])

\* the cardinalities on both sides of the thresholds 7, LOW and MEDIUM
DimensionCardinalities == {0, 1, 7, 8, LOW, LOW + 1, MEDIUM + 1}

FirstDimensions ==
    {DimensionField(NameCategory, k, FALSE) : k \in DimensionCardinalities}
    \cup {DimensionField(NameRegion, 7, FALSE), DimensionField(NameCategory, 7, TRUE)}

MoreDimensions ==
    {DimensionField(NameSegment, 7, FALSE), DimensionField(NameSegment, MEDIUM + 1, FALSE)}

DimensionLists ==
    {<<>>} \cup
    UNION {{<<d>> \o more : more \in UNION {[1..n -> MoreDimensions] : n \in 0..(MaxDimensions - 1)}} :
           d \in FirstDimensions}

MeasureNames == <<NameSales, NameFollowers, NameRevenue, NameProfit, NameCost>>

\* n measures, the one at position share (if any) named MarketShare
MeasureLists ==
    {[i \in 1..n |-> MeasureField(IF i = share THEN NameMarketShare ELSE MeasureNames[i])] :
        n \in 0..MaxMeasures, share \in 0..MaxMeasures}

\* n measures, none of them named after a share
PlainMeasureLists == {[i \in 1..n |-> MeasureField(MeasureNames[i])] : n \in 0..MaxMeasures}

DateNames == <<NameDate, NameYear, NameMonth, NameWeek>>

DateLists == {[i \in 1..n |-> DateField(DateNames[i])] : n \in 0..MaxDates}

\* record counts on both sides of the threshold 10000 (line 354)
RecordCounts == {9, 10, 10000, 10001}

\* record counts on both sides of the threshold 10 (line 449)
FewRecordCounts == {9, 10}

\* the kinds of value of a column given to analyzeField
ValueKinds == {"word", "integer", "half", "date"}

\* the i-th distinct value of a kind
ValueOfKind(kind, i) ==
    CASE kind = "word" -> Word(i)
      [] kind = "integer" -> Num(i)
      [] kind = "half" -> Half(i)
      [] kind = "date" -> DateStr(i)

\* a row that holds v under name, and a row without that property
RowOf(name, v) == [n \in {name} |-> v]
RowWithout == <<>>

(* Rows given to analyzeField: nulls rows that hold null, empties rows     *)
(* that hold the empty string, k rows of distinct values of a kind, dup    *)
(* more rows of the first of them, and undefs rows without the property.   *)
AnalyzedRows(name, kind, k, dup, nulls, empties, undefs) ==
    [i \in 1..nulls |-> RowOf(name, Null)]
    \o [i \in 1..empties |-> RowOf(name, Str(<<>>))]
    \o [i \in 1..k |-> RowOf(name, ValueOfKind(kind, i))]
    \o [i \in 1..(IF k > 0 THEN dup ELSE 0) |-> RowOf(name, ValueOfKind(kind, 1))]
    \o [i \in 1..undefs |-> RowWithout]

\* the numbers of distinct values: none, one, and both sides of 10, LOW and MEDIUM
CardinalityCases == {0, 1, 10, 11, LOW, LOW + 1, MEDIUM, MEDIUM + 1}

\* the counts given to getCardinalityLevel
CountCases == 0..(HIGH + 1)

(* The columns of the tables given to the chart helpers, in the order of   *)
(* the dataset.  The cells are strings, as Papa.parse leaves them (lines   *)
(* 694-700): Region a word per row, Segment one of two words, Date a date  *)
(* per row, Sales a number and a half per row, Profit one of 00, 01 and 02 *)
(* and empty in the second row, Rating an integer per row.                 *)
ChartColumns == <<"Region", "Segment", "Date", "Sales", "Profit", "Rating">>

ColumnSet == {ChartColumns[i] : i \in 1..Len(ChartColumns)}

ChartCell(name, i) ==
    CASE name = "Region" -> Word(i)
      [] name = "Segment" -> Word(i % 2)
      [] name = "Date" -> DateStr(i)
      [] name = "Sales" -> Str(NatString(i) \o <<".", "5">>)
      [] name = "Profit" -> IF i = 1 THEN Str(<<>>) ELSE Str(<<"0", Digits[(i % 3) + 1]>>)
      [] name = "Rating" -> Str(NatString(i))

\* the n rows of the table that has the columns of names
TableOf(names, n) == [i \in 1..n |-> [name \in names |-> ChartCell(name, i - 1)]]

\* the numbers of rows: none, one, and both sides of 2, 7 and 10
TableRowCounts == {0, 1, 2, 7, 8, 10, MaxTableRows}

Tables == [n \in TableRowCounts |-> TableOf(ColumnSet, n)]

\* the types of the columns of a table of n rows, as set with the rows (lines 702-707)
TypesOf(names, n) ==
    [name \in names |->
        IF n = 0 THEN "categorical"
        ELSE CASE name \in {"Region", "Segment"} -> "categorical"
               [] name = "Date" -> "date"
               [] name \in {"Sales", "Profit", "Rating"} -> "numeric"]

\* the chart types asked of getAutoSelectColumns: All, the families, and one that is none
AskedFamilies == {"All", "Bar", "Line", "Pie", "Scatter", "Histogram", "Radar"}

\* the numbers of rows of the datasets given to isColumnAddable and getAutoSelectColumns
FewTableRowCounts == {0, 2, 8}

(* The cells of the column a histogram is drawn of: n rows that hold the   *)
(* numbers from + step * (0, 1, ..., cycle - 1) again and again, as        *)
(* strings, every third with the fraction .5 if halves; junk more rows     *)
(* that hold, in turn, a word, null and nothing.                           *)
BinnedCell(i, from, step, cycle, halves) ==
    LET whole == from + step * (i % cycle)
    IN  IF halves /\ i % 3 = 2 THEN Str(NatString(whole) \o <<".", "5">>)
        ELSE Str(NatString(whole))

JunkCell(i) == IF i % 3 = 0 THEN Word(i) ELSE IF i % 3 = 1 THEN Null ELSE Undefined

BinnedCells(n, from, step, cycle, halves, junk) ==
    [i \in 1..n |-> BinnedCell(i - 1, from, step, cycle, halves)]
    \o [i \in 1..junk |-> JunkCell(i - 1)]

(* The tables the charts are rendered of, as Papa.parse leaves them: every *)
(* cell a string.  Row i holds one of dates dates, forwards or backwards,  *)
(* written as 2024-01-01, 2024-01-02, ... or, if slashed, as 9/5/2024,     *)
(* 10/5/2024, ... (month, day and year), one of cats platforms and         *)
(* channels, and in Followers and Likes the cells of two of the patterns   *)
(* below, which hold numbers above and below 0, 0, a half, an empty cell   *)
(* and a word.                                                             *)
SlashDate(k) == Str(NatString(9 + k) \o <<"/", "5", "/", "2", "0", "2", "4">>)

DrawnColumns == {"Date", "Platform", "Channel", "Followers", "Likes"}

DrawnTypes ==
    [name \in DrawnColumns |->
        CASE name = "Date" -> "date"
          [] name \in {"Platform", "Channel"} -> "categorical"
          [] name \in {"Followers", "Likes"} -> "numeric"]

CellPatterns ==
    << <<Str(<<"1","0">>), Str(<<"3","0">>), Str(<<"3","0">>), Str(<<"1","0">>)>>,
       <<Str(<<"3","0">>), Str(<<"1","0">>), Str(<<"1","0">>), Str(<<"3","0">>)>>,
       <<Str(<<"-","1","0">>), Str(<<"-","3","0">>), Str(<<"5">>), Str(<<"0">>)>>,
       <<Str(<<"0">>), Str(<<>>), Str(<<"0">>), Word(0)>>,
       <<Str(<<"-","5">>), Str(<<"5">>), Str(<<"0",".","5">>), Str(<<"7">>)>> >>

PatternCell(p, i) == CellPatterns[p][((i - 1) % Len(CellPatterns[p])) + 1]

\* the pairs of patterns of the tables of the bars
PatternPairs == {<<1, 2>>, <<3, 1>>, <<3, 3>>, <<4, 5>>, <<5, 3>>, <<4, 4>>}

DrawnRows(n, dates, cats, p1, p2, backwards, slashed) ==
    [i \in 1..n |->
        [name \in DrawnColumns |->
            CASE name = "Date" -> LET k == IF backwards THEN (n - i) % dates ELSE (i - 1) % dates
                                  IN  IF slashed THEN SlashDate(k) ELSE DateStr(k)
              [] name = "Platform" -> Word(((i - 1) \div dates) % cats)
              [] name = "Channel" -> Word(5 + ((i - 1) % cats))
              [] name = "Followers" -> PatternCell(p1, i)
              [] name = "Likes" -> PatternCell(p2, i)]]

\* the selections of the grouped, stacked and proportional bars, and one of no form
StackedSelections ==
    {<<"Platform", "Followers", "Likes">>, <<"Date", "Followers", "Likes">>,
     <<"Date", "Platform", "Followers">>, <<"Platform", "Channel", "Followers">>,
     <<"Followers", "Platform", "Likes">>}

\* the selections of the line charts
LineSelections ==
    {<<"Date", "Platform", "Followers">>, <<"Date", "Platform">>, <<"Platform", "Date">>,
     <<"Date", "Followers">>}

(* The rows given to aggregateByCategory: the categories of one of the     *)
(* patterns below (words, integers, both, one integer, words and empty     *)
(* cells), the amounts of one of the patterns of cells above.              *)
CategoryPatterns ==
    << <<Word(0), Word(1), Word(0), Word(2), Word(1)>>,
       <<Str(<<"1","0">>), Str(<<"2">>), Str(<<"1","0">>), Str(<<"7">>), Str(<<"2">>)>>,
       <<Word(0), Str(<<"3">>), Word(0), Str(<<"1">>), Str(<<"0","2">>)>>,
       <<Str(<<"5">>), Str(<<"5">>), Str(<<"5">>), Str(<<"5">>), Str(<<"5">>)>>,
       <<Word(1), Str(<<>>), Word(0), Str(<<>>), Word(1)>> >>

CategoryCell(c, i) == CategoryPatterns[c][((i - 1) % Len(CategoryPatterns[c])) + 1]

AggregatedRows(n, c, p) ==
    [i \in 1..n |-> [Category |-> CategoryCell(c, i), Amount |-> PatternCell(p, i)]]

\* the numbers of rows of the tables of the pie charts: up to more than 20 categories
PieRowCounts == {0, 1, 2, 8, MaxPieRows}

PieTables == [n \in PieRowCounts |-> TableOf(ColumnSet, n)]

(* The files given to MagicCharts: two files with a header and rows, one   *)
(* without a header (Papa.parse reports no fields) and the sample dataset. *)
(* Their rows are those of the tables above, their types as line 705       *)
(* infers them.  File 0 stands for no file.                                *)
UploadedFiles == {1, 2, 3}
SampleFile == Cardinality(UploadedFiles) + 1

FileColumns(f) ==
    CASE f = 1 -> <<"Region", "Sales", "Profit">>
      [] f = 2 -> <<"Date", "Segment", "Sales">>
      [] f = SampleFile -> <<"Segment", "Region", "Rating">>
      [] OTHER -> <<>>

FileRowCount(f) == CASE f = 1 -> 2 [] f = 2 -> 8 [] f = SampleFile -> 8 [] OTHER -> 0

\* results.meta.fields is set
FileHasFields(f) == f \in {1, 2, SampleFile}

NamesOf(list) == {list[i] : i \in 1..Len(list)}

FileRows == [f \in 0..SampleFile |-> TableOf(NamesOf(FileColumns(f)), FileRowCount(f))]
FileTypes == [f \in 0..SampleFile |-> TypesOf(NamesOf(FileColumns(f)), FileRowCount(f))]

\* the chart types of the filter buttons that the model clicks
ClickedChartTypes == {"All", "Pie", "Scatter"}

(* The files given to DataUpload, by what the FileReader and Papa.parse    *)
(* make of them: readable or not, result.errors empty or not, and the      *)
(* number of rows of result.data.                                          *)
UploadFiles ==
    {[readable |-> FALSE, errors |-> 0, rows |-> 0],
     [readable |-> TRUE, errors |-> 1, rows |-> 2],
     [readable |-> TRUE, errors |-> 0, rows |-> 0],
     [readable |-> TRUE, errors |-> 0, rows |-> 2]}

(* The columns given to detectColumnType: empty cells (the empty string    *)
(* and undefined in turn), strings of the shape of a date, strings that    *)
(* parse as numbers and words, in this order or in the reverse.            *)
WordPatterns == {"same", "cases", "two", "distinct", "slashed"}

WordCell(pattern, i) ==
    CASE pattern = "same" -> Str(<<"A">>)
      [] pattern = "cases" -> Str(<<<<"b", "A", "a", "B">>[(i % 4) + 1]>>)
      [] pattern = "two" -> IF i % 2 = 1 THEN Str(<<"A">>) ELSE Str(<<"B">>)
      [] pattern = "distinct" -> Str(<<UpperCase[i]>>)
      [] pattern = "slashed" -> SlashDate(i % 2)

\* "7" every time, or "1.5", "2", "3.5", "4", ... and "-1" at the fifth place
NumberCell(distinct, i) ==
    IF ~distinct THEN Str(<<"7">>)
    ELSE IF i = 5 THEN Str(<<"-", "1">>)
    ELSE IF i % 2 = 1 THEN Str(NatString(i) \o <<".", "5">>)
    ELSE Str(NatString(i))

\* a date of the calendar, or "2024-99-99" every time
DateCell(real, i) == IF real THEN DateStr(i) ELSE Str(<<"2","0","2","4","-","9","9","-","9","9">>)

EmptyCell(i) == IF i % 2 = 1 THEN Str(<<>>) ELSE Undefined

ColumnOf(empties, dates, numbers, words, real, distinct, pattern, backwards) ==
    LET forwards == [i \in 1..empties |-> EmptyCell(i)]
                    \o [i \in 1..dates |-> DateCell(real, i)]
                    \o [i \in 1..numbers |-> NumberCell(distinct, i)]
                    \o [i \in 1..words |-> WordCell(pattern, i)]
    IN  IF backwards THEN [i \in 1..Len(forwards) |-> forwards[Len(forwards) + 1 - i]]
        ELSE forwards

---------------------------------------------------------------------------
(* The state machine: one action per method of the engine.                 *)

NoResult == [none |-> TRUE]
NoSelection == [defined |-> TRUE, list |-> <<>>]
NoDescriptor == [none |-> TRUE]

NoVerdicts == [none |-> TRUE]
NoTypes == <<>>

\* no call of a chart helper is in hand
ChartsIdle ==
    /\ selection = <<>>
    /\ columnTypes = NoTypes
    /\ rowSample = NoRows
    /\ compatible = NoVerdicts
    /\ candidate = ""
    /\ addable = FALSE
    /\ chartFamily = ""
    /\ allColumns = <<>>
    /\ autoColumns = NoColumns

\* MagicCharts as mounted (lines 494-503): no data, the data screen, chart type All
NoClick == [kind |-> "none", col |-> "", disabled |-> FALSE, before |-> <<>>]

ScreenIdle ==
    /\ magicState = [screen |-> "data", columns |-> <<>>, rows |-> 0, columnTypes |-> 0,
                     selectedColumns |-> <<>>, activeChartType |-> "All"]
    /\ inFlight = {}
    /\ uploadLog = <<>>
    /\ uiEvent = NoClick

\* App and DataUpload as mounted (part_000, lines 11-18; DataUpload.tsx, lines 12-13)
NoAppEvent == [kind |-> "none", file |-> [readable |-> TRUE, errors |-> 0, rows |-> 0],
               onError |-> "", onDataUpload |-> FALSE, before |-> <<>>, removed |-> 0]

AppIdle ==
    /\ appState = [datasets |-> <<>>, currentDatasetId |-> 0, error |-> "",
                   showUpload |-> TRUE, isUploading |-> FALSE]
    /\ reading = {}
    /\ clock = 1
    /\ appEvent = NoAppEvent

\* no column is being typed
DetectIdle ==
    /\ columnValues = <<>>
    /\ columnType = ""

\* no chart is being rendered
NoChartInput == [key |-> "", cols |-> <<>>, rows |-> <<>>]

RenderIdle ==
    /\ chartInput = NoChartInput
    /\ chartOutput = NoChart

\* no histogram is being drawn
HistogramIdle ==
    /\ histogramCells = <<>>
    /\ histogram = NoHistogram

\* no call of analyzeField or getCardinalityLevel is in hand
AnalyzerIdle ==
    /\ analyzedField = <<>>
    /\ fieldDescriptor = NoDescriptor
    /\ cardinalityCount = 0
    /\ countLevel = ""

Init ==
    /\ op = "idle"
    /\ values = <<>>
    /\ dataType = ""
    /\ data = <<>>
    /\ selectedFields = NoSelection
    /\ fieldAnalysis = <<>>
    /\ fieldSets = NoFieldSets
    /\ recordCount = 0
    /\ appended = <<>>
    /\ suggestions = <<>>
    /\ result = NoResult
    /\ first = NoResult
    /\ chartType = ""
    /\ valid = FALSE
    /\ AnalyzerIdle
    /\ ChartsIdle
    /\ HistogramIdle
    /\ RenderIdle
    /\ ScreenIdle
    /\ AppIdle
    /\ DetectIdle

\* determineDataType(values)
DetermineDataType ==
    \E ints \in 0..MaxInts, dup \in {0, 3}, frac \in 0..1, dateStrs \in {0, 4, 5},
       years \in {0, 4}, dateObjs \in 0..1, others \in 0..MaxOthers, nans \in 0..1 :
        /\ op = "idle"
        /\ op' = "determineDataType"
        /\ values' = Column(ints, dup, frac, dateStrs, years, dateObjs, others, nans)
        /\ dataType' = determineDataType(values')
        /\ data' = <<>>
        /\ selectedFields' = NoSelection
        /\ fieldAnalysis' = <<>>
        /\ fieldSets' = NoFieldSets
        /\ recordCount' = 0
        /\ appended' = <<>>
        /\ suggestions' = <<>>
        /\ result' = NoResult
        /\ first' = NoResult
        /\ chartType' = ""
        /\ valid' = FALSE
        /\ UNCHANGED otherThanEngine

\* the frame a call of suggestCharts leaves
SuggestChartsFrame(rows, selected, previous, before) ==
    LET frame == suggestCharts(rows, selected, previous)
    IN  /\ op' = "suggestCharts"
        /\ data' = rows
        /\ selectedFields' = selected
        /\ fieldAnalysis' = frame.fieldAnalysis
        /\ fieldSets' = frame.fieldSets
        /\ recordCount' = frame.recordCount
        /\ appended' = frame.appended
        /\ suggestions' = frame.suggestions
        /\ result' = frame.result
        /\ first' = before
        /\ values' = <<>>
        /\ dataType' = ""
        /\ chartType' = ""
        /\ valid' = FALSE
        /\ UNCHANGED otherThanEngine

\* suggestCharts(data, selectedFields)
SuggestCharts ==
    \E rows \in RowCounts, defined \in BOOLEAN,
       list \in Selections(Columns \cup {NameMissing}, MaxSelected) :
        /\ op = "idle"
        /\ defined \/ list = <<>>
        /\ SuggestChartsFrame(Datasets[rows], [defined |-> defined, list |-> list],
                              suggestions, NoResult)

\* the same call of suggestCharts once more
SuggestChartsAgain ==
    /\ op = "suggestCharts"
    /\ SuggestChartsFrame(data, selectedFields, suggestions, result)

\* applyTableauRules(dimensions, measures, dates, recordCount)
ApplyTableauRules ==
    \E dimensions \in DimensionLists, measures \in MeasureLists, dates \in DateLists,
       count \in RecordCounts :
        LET frame == applyTableauRules(dimensions, measures, dates, count, suggestions)
        IN  /\ op = "idle"
            /\ op' = "applyTableauRules"
            /\ fieldSets' = frame.result.fieldAnalysis
            /\ recordCount' = count
            /\ appended' = frame.appended
            /\ suggestions' = frame.suggestions
            /\ result' = frame.result
            /\ first' = NoResult
            /\ data' = <<>>
            /\ selectedFields' = NoSelection
            /\ fieldAnalysis' = <<>>
            /\ values' = <<>>
            /\ dataType' = ""
            /\ chartType' = ""
            /\ valid' = FALSE
            /\ UNCHANGED otherThanEngine

\* validateChartSuggestion(chartType, fieldAnalysis, recordCount)
ValidateChartSuggestion ==
    \E dimensions \in DimensionLists, measures \in PlainMeasureLists, dates \in DateLists,
       count \in FewRecordCounts, type \in AskedTypes :
        /\ op = "idle"
        /\ op' = "validateChartSuggestion"
        /\ chartType' = type
        /\ fieldSets' = [dimensions |-> dimensions, measures |-> measures, dates |-> dates]
        /\ recordCount' = count
        /\ valid' = validateChartSuggestion(type, fieldSets', count)
        /\ appended' = <<>>
        /\ suggestions' = <<>>
        /\ result' = NoResult
        /\ first' = NoResult
        /\ data' = <<>>
        /\ selectedFields' = NoSelection
        /\ fieldAnalysis' = <<>>
        /\ values' = <<>>
        /\ dataType' = ""
        /\ UNCHANGED otherThanEngine

\* no frame of analyzeField or getCardinalityLevel is left
AnalyzerReset ==
    /\ analyzedField' = <<>>
    /\ fieldDescriptor' = NoDescriptor
    /\ cardinalityCount' = 0
    /\ countLevel' = ""

\* what a call of analyzeField or getCardinalityLevel leaves of the other calls' frames
EngineReset ==
    /\ values' = <<>>
    /\ dataType' = ""
    /\ selectedFields' = NoSelection
    /\ fieldAnalysis' = <<>>
    /\ fieldSets' = NoFieldSets
    /\ recordCount' = 0
    /\ appended' = <<>>
    /\ suggestions' = <<>>
    /\ result' = NoResult
    /\ first' = NoResult
    /\ chartType' = ""
    /\ valid' = FALSE

\* analyzeField(data, fieldName)
AnalyzeField ==
    \E name \in {NameNotes, NameMissing}, kind \in ValueKinds, k \in CardinalityCases,
       dup \in {0, 2}, nulls \in 0..MaxMissing, empties \in 0..MaxMissing,
       undefs \in 0..MaxMissing :
        /\ op = "idle"
        /\ name = NameMissing => (kind = "word" /\ dup = 0 /\ k \in {0, 1})
        /\ op' = "analyzeField"
        /\ data' = AnalyzedRows(NameNotes, kind, k, dup, nulls, empties, undefs)
        /\ analyzedField' = name
        /\ fieldDescriptor' = analyzeField(data', name)
        /\ cardinalityCount' = 0
        /\ countLevel' = ""
        /\ EngineReset
        /\ UNCHANGED otherThanAnalyzer

\* getCardinalityLevel(count)
GetCardinalityLevel ==
    \E count \in CountCases :
        /\ op = "idle"
        /\ op' = "getCardinalityLevel"
        /\ cardinalityCount' = count
        /\ countLevel' = getCardinalityLevel(count)
        /\ analyzedField' = <<>>
        /\ fieldDescriptor' = NoDescriptor
        /\ data' = <<>>
        /\ EngineReset
        /\ UNCHANGED otherThanAnalyzer

\* the variants of the table
VariantIds == {AllVariants[i] : i \in 1..Len(AllVariants)}

\* variant.isCompatible(cols, types, rows), of every variant of the table (lines 1255-1258)
IsCompatible ==
    \E n \in TableRowCounts, supplied \in BOOLEAN, cols \in Selections(ColumnSet, MaxChosen) :
        /\ op = "idle"
        /\ op' = "isCompatible"
        /\ selection' = cols
        /\ columnTypes' = TypesOf(ColumnSet, n)
        /\ rowSample' = IF supplied THEN SomeRows(Tables[n]) ELSE NoRows
        /\ compatible' = [v \in VariantIds |-> isCompatible(v, cols, columnTypes', rowSample')]
        /\ candidate' = ""
        /\ addable' = FALSE
        /\ chartFamily' = ""
        /\ allColumns' = <<>>
        /\ autoColumns' = NoColumns
        /\ UNCHANGED otherThanCharts

\* isColumnAddable(col, selected, columns, types, rows)
IsColumnAddable ==
    \E n \in FewTableRowCounts, selected \in Selections(ColumnSet, MaxAddedTo),
       col \in ColumnSet :
        /\ op = "idle"
        /\ op' = "isColumnAddable"
        /\ selection' = selected
        /\ candidate' = col
        /\ allColumns' = ChartColumns
        /\ columnTypes' = TypesOf(ColumnSet, n)
        /\ rowSample' = SomeRows(Tables[n])
        /\ addable' = isColumnAddable(col, selected, ChartColumns, columnTypes', Tables[n])
        /\ compatible' = NoVerdicts
        /\ chartFamily' = ""
        /\ autoColumns' = NoColumns
        /\ UNCHANGED otherThanCharts

\* getAutoSelectColumns(chartType, columns, types, rows)
GetAutoSelectColumns ==
    \E n \in FewTableRowCounts, type \in AskedFamilies,
       columns \in Selections(ColumnSet, MaxColumns) :
        LET names == {columns[i] : i \in 1..Len(columns)}
        IN  /\ op = "idle"
            /\ op' = "getAutoSelectColumns"
            /\ chartFamily' = type
            /\ allColumns' = columns
            /\ columnTypes' = TypesOf(names, n)
            /\ rowSample' = SomeRows(TableOf(names, n))
            /\ autoColumns' = getAutoSelectColumns(type, columns, columnTypes',
                                                   rowSample'.list)
            /\ selection' = <<>>
            /\ compatible' = NoVerdicts
            /\ candidate' = ""
            /\ addable' = FALSE
            /\ UNCHANGED otherThanCharts

\* the histogram of the selected numeric column is binned (lines 2012-2026)
BinHistogram ==
    \E n \in 0..MaxBinned, from \in {0, 4}, step \in {0, 1, 3}, cycle \in {1, 2, 7},
       halves \in BOOLEAN, junk \in {0, 3} :
        /\ op = "idle"
        /\ op' = "binHistogram"
        /\ histogramCells' = BinnedCells(n, from, step, cycle, halves, junk)
        /\ histogram' = binHistogram(histogramCells')
        /\ UNCHANGED otherThanHistogram

\* the grouped, stacked or proportional bars of a selection are rendered (lines 1564-1760)
RenderStackedBars ==
    \E key \in {"grouped", "stacked", "proportional"}, cols \in StackedSelections,
       n \in 1..MaxDrawnRows, dates \in {1, 2}, cats \in {1, 2},
       pair \in PatternPairs, backwards \in BOOLEAN :
        /\ op = "idle"
        /\ op' = "renderStackedBars"
        /\ chartInput' = [key |-> key, cols |-> cols,
                          rows |-> DrawnRows(n, dates, cats, pair[1], pair[2],
                                             backwards, FALSE)]
        /\ chartOutput' = renderStackedBars(key, cols, DrawnTypes, chartInput'.rows)
        /\ UNCHANGED otherThanRender

\* a pie variant that accepts the selection is rendered (lines 1258-1303)
RenderPie ==
    \E key \in {"standard", "donut", "count"}, cols \in Selections(ColumnSet, 2),
       n \in PieRowCounts :
        /\ op = "idle"
        /\ isCompatible(<<"Pie", key>>, cols, TypesOf(ColumnSet, n), SomeRows(PieTables[n]))
        /\ op' = "renderPie"
        /\ chartInput' = [key |-> key, cols |-> cols, rows |-> PieTables[n]]
        /\ chartOutput' = renderPie(cols, TypesOf(ColumnSet, n), PieTables[n])
        /\ UNCHANGED otherThanRender

\* the line chart of a selection is rendered (lines 1842-1949)
RenderLine ==
    \E cols \in LineSelections, n \in 1..MaxDrawnRows, dates \in {1, 2, 3}, cats \in {1, 2, 3},
       p1 \in 1..Len(CellPatterns), backwards \in BOOLEAN, slashed \in BOOLEAN :
        /\ op = "idle"
        /\ op' = "renderLine"
        /\ chartInput' = [key |-> "multi", cols |-> cols,
                          rows |-> DrawnRows(n, dates, cats, p1, p1, backwards, slashed)]
        /\ chartOutput' = renderLine(cols, DrawnTypes, chartInput'.rows)
        /\ UNCHANGED otherThanRender

\* aggregateByCategory(rows, categoryCol, valueCol), valueCol null or a column
AggregateByCategory ==
    \E n \in 0..MaxDrawnRows, c \in 1..Len(CategoryPatterns), p \in 1..Len(CellPatterns),
       valueCol \in {"", "Amount"} :
        /\ op = "idle"
        /\ op' = "aggregateByCategory"
        /\ chartInput' = [key |-> valueCol, cols |-> <<"Category">>,
                          rows |-> AggregatedRows(n, c, p)]
        /\ chartOutput' = aggregateByCategory(chartInput'.rows, "Category", valueCol)
        /\ UNCHANGED otherThanRender

\* nothing of the rendering is left
RenderReset ==
    /\ chartInput' = NoChartInput
    /\ chartOutput' = NoChart

---------------------------------------------------------------------------
(* The MagicCharts component (src/src/MagicCharts.tsx).  Every handler and *)
(* every completion callback runs to its end before the next one starts.   *)

\* handleFileUpload (lines 691-714): Papa.parse of a File completes later
HandleFileUpload ==
    \E f \in UploadedFiles \ inFlight :
        /\ magicState.screen = "data"
        /\ Len(SelectSeq(uploadLog, LAMBDA e : e.event = "start")) < MaxUploads
        /\ inFlight' = inFlight \cup {f}
        /\ uploadLog' = Append(uploadLog, [event |-> "start", file |-> f])
        /\ uiEvent' = NoClick
        /\ UNCHANGED <<magicState, otherThanScreen>>

\* a faulty variant of the completion: the selection is kept
loadedKeepingSelection(state, f) ==
    [state EXCEPT !.columns = FileColumns(f),
                  !.rows = f,
                  !.columnTypes = f,
                  !.screen = "columns"]

\* a faulty variant of the completion: the types stay those of the file before
loadedWithoutTypes(state, f) ==
    [state EXCEPT !.columns = FileColumns(f),
                  !.rows = f,
                  !.selectedColumns = <<>>,
                  !.screen = "columns"]

\* the state after the five setters of a completion (lines 699-709 and 725-735)
loaded(state, f) ==
    [state EXCEPT !.columns = FileColumns(f),
                  !.rows = f,
                  !.columnTypes = f,
                  !.selectedColumns = <<>>,
                  !.screen = "columns"]

\* the complete callback of an upload (lines 697-711), of any of the parses in flight
ParseComplete ==
    \E f \in inFlight :
        /\ inFlight' = inFlight \ {f}
        /\ uploadLog' = Append(uploadLog, [event |-> "complete", file |-> f])
        /\ magicState' = IF FileHasFields(f) THEN loaded(magicState, f) ELSE magicState
        /\ uiEvent' = [kind |-> "complete", col |-> "", disabled |-> FALSE,
                       before |-> magicState.selectedColumns]
        /\ UNCHANGED otherThanScreen

\* handleSampleSelect (lines 717-740): Papa.parse of a string completes within the call
HandleSampleSelect ==
    /\ magicState.screen = "data"
    /\ magicState' = IF FileHasFields(SampleFile) THEN loaded(magicState, SampleFile)
                     ELSE magicState
    /\ uiEvent' = [kind |-> "sample", col |-> "", disabled |-> FALSE,
                   before |-> magicState.selectedColumns]
    /\ UNCHANGED <<inFlight, uploadLog, otherThanScreen>>

\* a faulty variant of shouldDisable: no button is disabled
neverDisabled(col, state) == FALSE

\* shouldDisable of a column button (line 828)
shouldDisable(col, state) ==
    /\ Len(state.selectedColumns) > 0
    /\ ~Includes(state.selectedColumns, col)
    /\ ~isColumnAddable(col, state.selectedColumns, state.columns,
                        FileTypes[state.columnTypes], FileRows[state.rows])

\* handleColumnToggle (lines 684-688)
handleColumnToggle(prev, col) ==
    IF Includes(prev, col) THEN SelectSeq(prev, LAMBDA c : c # col) ELSE Append(prev, col)

\* a click on a column button of the columns screen (lines 826-845)
ClickColumn ==
    \E i \in 1..Len(magicState.columns) :
        LET col == magicState.columns[i]
            disabled == shouldDisable(col, magicState)
        IN  /\ magicState.screen = "columns"
            /\ uiEvent' = [kind |-> "toggle", col |-> col, disabled |-> disabled,
                           before |-> magicState.selectedColumns]
            /\ magicState' = IF disabled THEN magicState
                             ELSE [magicState EXCEPT !.selectedColumns =
                                      handleColumnToggle(magicState.selectedColumns, col)]
            /\ UNCHANGED <<inFlight, uploadLog, otherThanScreen>>

\* a click on a chart type filter button (line 861)
SetActiveChartType ==
    \E type \in ClickedChartTypes :
        /\ magicState.screen = "columns"
        /\ magicState.activeChartType # type
        /\ magicState' = [magicState EXCEPT !.activeChartType = type]
        /\ uiEvent' = NoClick
        /\ UNCHANGED <<inFlight, uploadLog, otherThanScreen>>

(* A click on Auto select (lines 2080-2094).  The button is there when no  *)
(* card was pushed, which depends on what every variant draws; the model   *)
(* lets it be clicked whenever getAutoSelectColumns found columns.         *)
AutoSelect ==
    LET autoCols == getAutoSelectColumns(magicState.activeChartType, magicState.columns,
                                         FileTypes[magicState.columnTypes],
                                         FileRows[magicState.rows])
    IN  /\ magicState.screen = "columns"
        /\ autoCols.found
        /\ magicState' = [magicState EXCEPT !.selectedColumns = autoCols.combo]
        /\ uiEvent' = NoClick
        /\ UNCHANGED <<inFlight, uploadLog, otherThanScreen>>

\* a click on the back button (line 816)
BackToData ==
    /\ magicState.screen = "columns"
    /\ magicState' = [magicState EXCEPT !.screen = "data"]
    /\ uiEvent' = NoClick
    /\ UNCHANGED <<inFlight, uploadLog, otherThanScreen>>

---------------------------------------------------------------------------
(* App (src/unnamed/part_000) and DataUpload                               *)
(* (src/src/components/DataUpload/DataUpload.tsx).  A dataset is its id;   *)
(* the id 0 stands for null.                                               *)

\* a faulty variant of processCSVData: rows are accepted whatever result.errors holds
processCSVDataWithErrors(file, now) ==
    IF file.rows = 0 THEN [thrown |-> "No data found in CSV file", id |-> 0]
    ELSE [thrown |-> "", id |-> now]

\* processCSVData (DataUpload.tsx, lines 42-76): the dataset, or the message of the Error thrown
processCSVData(file, now) ==
    IF file.errors > 0 THEN [thrown |-> "CSV parsing errors", id |-> 0]
    ELSE IF file.rows = 0 THEN [thrown |-> "No data found in CSV file", id |-> 0]
    ELSE [thrown |-> "", id |-> now]

\* handleDataUpload (part_000, lines 22-27)
handleDataUpload(state, id) ==
    [state EXCEPT !.datasets = Append(@, id),
                  !.currentDatasetId = id,
                  !.error = "",
                  !.showUpload = FALSE]

\* handleError (part_000, lines 29-31)
handleError(state, errorMessage) == [state EXCEPT !.error = errorMessage]

\* the try and catch of lines 86-91 and 109-114: onDataUpload or onError
processAndReport(state, file, now) ==
    LET processed == processCSVData(file, now)
    IN  IF processed.thrown = "" THEN handleDataUpload(state, processed.id)
        ELSE handleError(state, processed.thrown)

\* a click on Add File (line 169) or Cancel (line 193)
SetShowUpload ==
    /\ appState.datasets # <<>>
    /\ appState' = [appState EXCEPT !.showUpload = ~@]
    /\ appEvent' = NoAppEvent
    /\ UNCHANGED <<reading, clock, otherThanApp>>

\* handleFileUpload (DataUpload.tsx, lines 78-103): the FileReader starts to read
StartFileRead ==
    \E file \in UploadFiles \ reading :
        /\ appState.showUpload
        /\ clock <= MaxRegistered
        /\ reading' = reading \cup {file}
        /\ appState' = [appState EXCEPT !.isUploading = TRUE]
        /\ appEvent' = NoAppEvent
        /\ UNCHANGED <<clock, otherThanApp>>

\* reader.onload (lines 85-95) or reader.onerror (lines 97-100) of a file being read
FileReadDone ==
    \E file \in reading :
        LET reported == IF file.readable THEN processAndReport(appState, file, clock)
                        ELSE handleError(appState, "Failed to read file")
        IN  /\ reading' = reading \ {file}
            /\ appState' = [reported EXCEPT !.isUploading = FALSE]
            /\ clock' = clock + 1
            /\ appEvent' = [kind |-> "read", file |-> file,
                            onError |-> IF reported.datasets = appState.datasets
                                        THEN reported.error ELSE "",
                            onDataUpload |-> reported.datasets # appState.datasets,
                            before |-> appState.datasets, removed |-> 0]
            /\ UNCHANGED otherThanApp

\* handleSampleDatasetSelect (lines 105-115), of a sample that parses or does not
SampleDatasetSelect ==
    \E file \in {f \in UploadFiles : f.readable} :
        LET reported == processAndReport(appState, file, clock)
        IN  /\ appState.showUpload
            /\ clock <= MaxRegistered
            /\ appState' = reported
            /\ clock' = clock + 1
            /\ appEvent' = [kind |-> "sample", file |-> file,
                            onError |-> IF reported.datasets = appState.datasets
                                        THEN reported.error ELSE "",
                            onDataUpload |-> reported.datasets # appState.datasets,
                            before |-> appState.datasets, removed |-> 0]
            /\ UNCHANGED <<reading, otherThanApp>>

\* a click on the card of a dataset (part_000, line 217)
SelectDataset ==
    \E i \in 1..Len(appState.datasets) :
        /\ ~appState.showUpload
        /\ appState.currentDatasetId # appState.datasets[i]
        /\ appState' = [appState EXCEPT !.currentDatasetId = appState.datasets[i]]
        /\ appEvent' = NoAppEvent
        /\ UNCHANGED <<reading, clock, otherThanApp>>

(* removeDataset (part_000, lines 45-50).  datasets in line 48 is the list *)
(* of the render the click was made in, the one before the removal;        *)
(* datasets[0]?.id || null is null for an empty list.                      *)
removeDataset(state, datasetId) ==
    LET kept == SelectSeq(state.datasets, LAMBDA d : d # datasetId)
    IN  IF state.currentDatasetId = datasetId
        THEN [state EXCEPT !.datasets = kept,
                           !.currentDatasetId = IF Len(state.datasets) > 1
                                                THEN state.datasets[1] ELSE 0]
        ELSE [state EXCEPT !.datasets = kept]

\* a click on Remove of a dataset (part_000, line 237)
RemoveDataset ==
    \E i \in 1..Len(appState.datasets) :
        /\ ~appState.showUpload
        /\ appState' = removeDataset(appState, appState.datasets[i])
        /\ appEvent' = [NoAppEvent EXCEPT !.kind = "remove", !.before = appState.datasets,
                                          !.removed = appState.datasets[i]]
        /\ UNCHANGED <<reading, clock, otherThanApp>>

\* handleStartAgain (part_000, lines 52-58)
HandleStartAgain ==
    /\ appState' = [appState EXCEPT !.datasets = <<>>, !.currentDatasetId = 0,
                                    !.showUpload = TRUE, !.error = ""]
    /\ appEvent' = [NoAppEvent EXCEPT !.kind = "startAgain", !.before = appState.datasets]
    /\ UNCHANGED <<reading, clock, otherThanApp>>

---------------------------------------------------------------------------
(* detectColumnType (src/src/components/DataUpload/DataUpload.tsx, lines   *)
(* 16-40).                                                                 *)

\* /^\d{4}-\d{2}-\d{2}$/.test(s)
MatchesDatePattern(s) ==
    /\ Len(s) = 10
    /\ \A i \in {1, 2, 3, 4, 6, 7, 9, 10} : IsDigit(s[i])
    /\ s[5] = "-"
    /\ s[8] = "-"

\* !isNaN(Number(v)) && v !== ''   (line 28)
ParsesAsNumber(v) == ToNumber(v).kind = "number" /\ v # Str(<<>>)

\* Math.min(20, n * 0.5), as twice its value
TwiceMinOfTwentyAndHalf(n) == IF 40 < n THEN 40 ELSE n

\* a faulty variant of detectColumnType: four numbers in five are enough
detectColumnTypeAtLeast(vals) ==
    LET sampleValues == SelectSeq(Slice(vals, 10), IsNonEmpty)
        numericValues == SelectSeq(sampleValues, ParsesAsNumber)
        uniqueValues == {toLowerCase(valueToString(sampleValues[i])) :
                            i \in 1..Len(sampleValues)}
    IN  IF Len(sampleValues) = 0 THEN "text"
        ELSE IF \A i \in 1..Len(sampleValues) :
                   MatchesDatePattern(valueToString(sampleValues[i])) THEN "date"
        ELSE IF 10 * Len(numericValues) >= 8 * Len(sampleValues) THEN "numeric"
        ELSE IF 2 * Cardinality(uniqueValues) <= TwiceMinOfTwentyAndHalf(Len(sampleValues))
             THEN "categorical"
        ELSE "text"

\* detectColumnType (lines 16-40)
detectColumnType(vals) ==
    LET sampleValues == SelectSeq(Slice(vals, 10), IsNonEmpty)
        numericValues == SelectSeq(sampleValues, ParsesAsNumber)
        uniqueValues == {toLowerCase(valueToString(sampleValues[i])) :
                            i \in 1..Len(sampleValues)}
    IN  IF Len(sampleValues) = 0 THEN "text"
        ELSE IF \A i \in 1..Len(sampleValues) :
                   MatchesDatePattern(valueToString(sampleValues[i])) THEN "date"
        ELSE IF 10 * Len(numericValues) > 8 * Len(sampleValues) THEN "numeric"
        ELSE IF 2 * Cardinality(uniqueValues) <= TwiceMinOfTwentyAndHalf(Len(sampleValues))
             THEN "categorical"
        ELSE "text"

\* processCSVData types a column (lines 61-65)
DetectColumnType ==
    \E empties \in 0..2, dates \in {0, 1, 2, 10}, numbers \in 0..MaxValues, words \in 0..4,
       real \in BOOLEAN, distinct \in BOOLEAN, pattern \in WordPatterns, backwards \in BOOLEAN :
        /\ op = "idle"
        /\ empties + dates + numbers + words <= MaxValues
        /\ op' = "detectColumnType"
        /\ columnValues' = ColumnOf(empties, dates, numbers, words, real, distinct, pattern,
                                    backwards)
        /\ columnType' = detectColumnType(columnValues')
        /\ UNCHANGED otherThanDetect

\* nothing of the call is left
DetectReset ==
    /\ columnValues' = <<>>
    /\ columnType' = ""

\* nothing of the histogram is left
HistogramReset ==
    /\ histogramCells' = <<>>
    /\ histogram' = NoHistogram

\* no frame of a chart helper is left
ChartsReset ==
    /\ selection' = <<>>
    /\ columnTypes' = NoTypes
    /\ rowSample' = NoRows
    /\ compatible' = NoVerdicts
    /\ candidate' = ""
    /\ addable' = FALSE
    /\ chartFamily' = ""
    /\ allColumns' = <<>>
    /\ autoColumns' = NoColumns

\* the call returns and the caller drops what it was given back
Return ==
    /\ op # "idle"
    /\ op' = "idle"
    /\ values' = <<>>
    /\ dataType' = ""
    /\ data' = <<>>
    /\ selectedFields' = NoSelection
    /\ fieldAnalysis' = <<>>
    /\ fieldSets' = NoFieldSets
    /\ recordCount' = 0
    /\ appended' = <<>>
    /\ suggestions' = <<>>
    /\ result' = NoResult
    /\ first' = NoResult
    /\ chartType' = ""
    /\ valid' = FALSE
    /\ AnalyzerReset
    /\ ChartsReset
    /\ HistogramReset
    /\ RenderReset
    /\ UNCHANGED <<screenVars, appVars>>
    /\ DetectReset

Next ==
    \/ DetectColumnType
    \/ SetShowUpload
    \/ StartFileRead
    \/ FileReadDone
    \/ SampleDatasetSelect
    \/ SelectDataset
    \/ RemoveDataset
    \/ HandleStartAgain
    \/ HandleFileUpload
    \/ ParseComplete
    \/ HandleSampleSelect
    \/ ClickColumn
    \/ SetActiveChartType
    \/ AutoSelect
    \/ BackToData
    \/ AggregateByCategory
    \/ RenderPie
    \/ RenderStackedBars
    \/ RenderLine
    \/ BinHistogram
    \/ IsCompatible
    \/ IsColumnAddable
    \/ GetAutoSelectColumns
    \/ AnalyzeField
    \/ GetCardinalityLevel
    \/ DetermineDataType
    \/ SuggestCharts
    \/ SuggestChartsAgain
    \/ ApplyTableauRules
    \/ ValidateChartSuggestion
    \/ Return

Spec == Init /\ [][Next]_vars

\* the classifier alone
NextClassifier == DetermineDataType \/ Return
SpecClassifier == Init /\ [][NextClassifier]_vars

\* the grouped, stacked and proportional bars alone
NextStackedBars == RenderStackedBars \/ Return
SpecStackedBars == Init /\ [][NextStackedBars]_vars

\* aggregateByCategory alone
NextAggregate == AggregateByCategory \/ Return
SpecAggregate == Init /\ [][NextAggregate]_vars

\* detectColumnType alone
NextDetect == DetectColumnType \/ Return
SpecDetect == Init /\ [][NextDetect]_vars

\* App and DataUpload alone
NextApp ==
    \/ SetShowUpload
    \/ StartFileRead
    \/ FileReadDone
    \/ SampleDatasetSelect
    \/ SelectDataset
    \/ RemoveDataset
    \/ HandleStartAgain
SpecApp == Init /\ [][NextApp]_vars

\* the MagicCharts component alone
NextScreen ==
    \/ HandleFileUpload
    \/ ParseComplete
    \/ HandleSampleSelect
    \/ ClickColumn
    \/ SetActiveChartType
    \/ AutoSelect
    \/ BackToData
SpecScreen == Init /\ [][NextScreen]_vars

\* the pie charts alone
NextPie == RenderPie \/ Return
SpecPie == Init /\ [][NextPie]_vars

\* the line charts alone
NextLine == RenderLine \/ Return
SpecLine == Init /\ [][NextLine]_vars

\* the binning of the histogram alone
NextHistogram == BinHistogram \/ Return
SpecHistogram == Init /\ [][NextHistogram]_vars

\* the variants of the table alone
NextVariants == IsCompatible \/ Return
SpecVariants == Init /\ [][NextVariants]_vars

\* isColumnAddable alone
NextAddable == IsColumnAddable \/ Return
SpecAddable == Init /\ [][NextAddable]_vars

\* getAutoSelectColumns alone
NextAutoSelect == GetAutoSelectColumns \/ Return
SpecAutoSelect == Init /\ [][NextAutoSelect]_vars

\* the field analyzer alone
NextAnalyzer == AnalyzeField \/ GetCardinalityLevel \/ Return
SpecAnalyzer == Init /\ [][NextAnalyzer]_vars

\* the rule table alone
NextRules == ApplyTableauRules \/ Return
SpecRules == Init /\ [][NextRules]_vars

\* suggestCharts, called once or twice
NextSuggest == SuggestCharts \/ SuggestChartsAgain \/ Return
SpecSuggest == Init /\ [][NextSuggest]_vars

\* the validator alone
NextValidate == ValidateChartSuggestion \/ Return
SpecValidate == Init /\ [][NextValidate]_vars

---------------------------------------------------------------------------
(* The claims.                                                             *)

HasSuggestion(list, type, priority) ==
    \E i \in 1..Len(list) : list[i].type = type /\ list[i].priority = priority

HasType(list, type) == \E i \in 1..Len(list) : list[i].type = type

TypesAndPriorities(list) ==
    [i \in 1..Len(list) |-> [type |-> list[i].type, priority |-> list[i].priority]]

WithPriority(list, p) == SelectSeq(list, LAMBDA x : x.priority = p)

\* some measure has a name that contains, in any case, a part-of-whole keyword
NamesAShare(measures) ==
    \E m \in 1..Len(measures) :
        \E keyword \in {<<"p","e","r","c","e","n","t","a","g","e">>, <<"p","e","r","c","e","n","t">>,
                        <<"s","h","a","r","e">>, <<"p","r","o","p","o","r","t","i","o","n">>,
                        <<"r","a","t","i","o">>} :
            includes(toLowerCase(measures[m].name), keyword)

(* C1: suggestCharts called with an empty or missing list of selected      *)
(* fields returns exactly {suggestions: [], reason: 'No fields selected'}, *)
(* whatever the rows, and analyses no field.                               *)
C1_EmptySelection ==
    (op = "suggestCharts" /\ (~selectedFields.defined \/ selectedFields.list = <<>>))
        => /\ result = [suggestions |-> <<>>, reason |-> "No fields selected"]
           /\ fieldAnalysis = <<>>

C1_Witness ==
    /\ op = "suggestCharts"
    /\ ~selectedFields.defined
    /\ Len(data) = MaxRows
    /\ DOMAIN result = {"suggestions", "reason"}

(* C2: for exactly 1 date, 1 measure and no dimension applyTableauRules    *)
(* returns exactly line with priority 1 and then bar with priority 2, for  *)
(* every record count and every measure name.                              *)
C2_DateAndMeasure ==
    (/\ op = "applyTableauRules"
     /\ Len(fieldSets.dates) = 1 /\ Len(fieldSets.measures) = 1 /\ Len(fieldSets.dimensions) = 0)
        => TypesAndPriorities(result.suggestions)
               = <<[type |-> "line", priority |-> 1], [type |-> "bar", priority |-> 2]>>

C2_Witness ==
    /\ op = "applyTableauRules"
    /\ Len(fieldSets.dates) = 1 /\ Len(fieldSets.measures) = 1 /\ Len(fieldSets.dimensions) = 0
    /\ NamesAShare(fieldSets.measures)
    /\ recordCount > 10000
    /\ Len(result.suggestions) = 2

(* C3: the list applyTableauRules returns is in non-decreasing order of    *)
(* priority, and the suggestions of one priority are in the order in which *)
(* the rules pushed them.                                                  *)
C3_StableAscending ==
    op = "applyTableauRules"
        => /\ result.suggestions = suggestions
           /\ Len(suggestions) = Len(appended)
           /\ \A i \in 1..(Len(suggestions) - 1) :
                  suggestions[i].priority <= suggestions[i + 1].priority
           /\ \A p \in {appended[i].priority : i \in 1..Len(appended)} :
                  WithPriority(suggestions, p) = WithPriority(appended, p)

C3_Witness ==
    /\ op = "applyTableauRules"
    /\ suggestions # appended
    /\ \E i, j \in 1..Len(appended) :
          /\ i < j
          /\ appended[i].priority = appended[j].priority
          /\ appended[i] # appended[j]
          /\ \E k \in (i + 1)..(j - 1) : appended[k].priority > appended[i].priority

C5_TableFallback ==
    (/\ op = "applyTableauRules"
     /\ Len(fieldSets.dimensions) + Len(fieldSets.measures) + Len(fieldSets.dates) > 0)
        => /\ Len(result.suggestions) >= 1
           /\ HasType(result.suggestions, "table")
                 <=> (\A i \in 1..Len(result.suggestions) : result.suggestions[i].type = "table")
           /\ HasType(result.suggestions, "table") => Len(result.suggestions) = 1

C5_Witness ==
    /\ op = "applyTableauRules"
    /\ Len(fieldSets.dimensions) = 2 /\ Len(fieldSets.measures) = 0 /\ Len(fieldSets.dates) = 1
    /\ TypesAndPriorities(result.suggestions) = <<[type |-> "table", priority |-> 1]>>

(* C6, as stated: whenever a measure has a name that contains one of the   *)
(* keywords percentage, percent, share, proportion, ratio, the suggestions *)
(* include stacked_bar, for every number of measures of 1 or more.         *)
C6_ShareWithAnyMeasures ==
    (/\ op = "applyTableauRules"
     /\ Len(fieldSets.measures) >= 1
     /\ NamesAShare(fieldSets.measures))
        => HasType(result.suggestions, "stacked_bar")

(* C6, amended: whenever there are 2 or more measures and one of them has  *)
(* a name that contains, in any case, one of the keywords, the suggestions *)
(* include stacked_bar with priority 2.                                    *)
C6_ShareWithTwoMeasures ==
    (/\ op = "applyTableauRules"
     /\ Len(fieldSets.measures) >= 2
     /\ NamesAShare(fieldSets.measures))
        => HasSuggestion(result.suggestions, "stacked_bar", 2)

C6_Witness ==
    /\ op = "applyTableauRules"
    /\ Len(fieldSets.measures) = 2
    /\ fieldSets.measures[2].name = NameMarketShare
    /\ Len(fieldSets.dimensions) = 0
    /\ HasSuggestion(result.suggestions, "stacked_bar", 2)

C9_SmallIntegersAreDimension ==
    LET numbers == {i \in 1..Len(values) : values[i].kind = "number"}
        distinct == Cardinality({values[i] : i \in numbers})
        integers == \A i \in numbers : values[i].n % 2 = 0
    IN  (op = "determineDataType" /\ 10 * Cardinality(numbers) > 8 * Len(values))
            => /\ (integers /\ distinct <= 20) => dataType = "DIMENSION"
               /\ (~integers \/ distinct >= 21) => dataType = "MEASURE"

C9_Witness ==
    /\ op = "determineDataType"
    /\ Cardinality({values[i] : i \in {j \in 1..Len(values) : values[j].kind = "number"}}) = 20
    /\ \E i \in 1..Len(values) : values[i].kind = "string"
    /\ Len(values) > 20
    /\ dataType = "DIMENSION"

\* the value is a Date or a string that parses as a date
DateParseable(v) == v.kind = "Date" \/ (v.kind = "string" /\ DateParses(v.s))

\* the value is a number or a string of digits
NumericParseable(v) ==
    v.kind = "number" \/ (v.kind = "string" /\ v.s # <<>> /\ \A i \in 1..Len(v.s) : IsDigit(v.s[i]))

(* C10: determineDataType returns DATE for a column in which more than 80% *)
(* of the values parse as dates, however many of them also read as         *)
(* numbers.                                                                *)
C10_DatesFirst ==
    (/\ op = "determineDataType"
     /\ 10 * Cardinality({i \in 1..Len(values) : DateParseable(values[i])}) > 8 * Len(values))
        => dataType = "DATE"

C10_Witness ==
    /\ op = "determineDataType"
    /\ 10 * Cardinality({i \in 1..Len(values) : DateParseable(values[i])}) > 8 * Len(values)
    /\ \E i \in 1..Len(values) : DateParseable(values[i]) /\ NumericParseable(values[i])
    /\ \E i \in 1..Len(values) : values[i].kind = "number"
    /\ dataType = "DATE"


---------------------------------------------------------------------------
(* The claims about the field analyzer.                                    *)

\* the values of the column named name, row by row
ColumnValues(rows, name) == [i \in 1..Len(rows) |-> RowValue(rows[i], name)]

NullOrUndefined == {Null, Undefined}
NullUndefinedOrEmpty == {Null, Undefined, Str(<<>>)}
IsNullOrUndefined(v) == v \in NullOrUndefined

\* the values of a column that are not among the missing ones, and the set of them
PresentValues(column, missing) == SelectSeq(column, LAMBDA v : v \notin missing)
DistinctPresent(column, missing) ==
    {column[i] : i \in {j \in 1..Len(column) : column[j] \notin missing}}

\* the level of a count as the tiers are described: up to 20, 21 to 100, 101 and more
TierOf(n) ==
    IF n <= 20 THEN "LOW" ELSE IF n >= 21 /\ n <= 100 THEN "MEDIUM" ELSE "HIGH"

(* C11: analyzeField on a column with no value other than null and         *)
(* undefined, a dataset of zero rows included, returns type DIMENSION,     *)
(* cardinality 0 and cardinality level LOW.                                *)
C11_EmptyColumn ==
    (/\ op = "analyzeField"
     /\ \A i \in 1..Len(data) : IsNullOrUndefined(RowValue(data[i], analyzedField)))
    => /\ fieldDescriptor.type = "DIMENSION"
       /\ fieldDescriptor.cardinality = 0
       /\ fieldDescriptor.cardinalityLevel = "LOW"

\* a column of several rows, some null and some undefined, was analyzed
C11_Witness ==
    /\ op = "analyzeField"
    /\ \E i \in 1..Len(data) : RowValue(data[i], analyzedField) = Null
    /\ \E i \in 1..Len(data) : RowValue(data[i], analyzedField) = Undefined
    /\ \A i \in 1..Len(data) : IsNullOrUndefined(RowValue(data[i], analyzedField))
    /\ fieldDescriptor.cardinality = 0

\* the descriptor of analyzeField, when the values of missing are the missing ones
TreatsAsMissing(missing) ==
    LET column == ColumnValues(data, analyzedField)
    IN  /\ fieldDescriptor.hasNulls <=> \E i \in 1..Len(column) : column[i] \in missing
        /\ fieldDescriptor.type = determineDataType(PresentValues(column, missing))
        /\ fieldDescriptor.cardinality = Cardinality(DistinctPresent(column, missing))

(* C12, as claimed: analyzeField treats null, undefined and the empty      *)
(* string alike as missing: hasNulls is true exactly when some row's value *)
(* is one of them, and they are left out of the values that are typed and  *)
(* counted.                                                                *)
C12_EmptyStringIsMissing ==
    op = "analyzeField" => TreatsAsMissing(NullUndefinedOrEmpty)

(* C12, as amended: analyzeField treats null and undefined as missing and  *)
(* the empty string as a value: hasNulls is true exactly when some row's   *)
(* value is null or undefined, and only those are left out of the values   *)
(* that are typed and counted.                                             *)
C12_NullAndUndefinedAreMissing ==
    op = "analyzeField" => TreatsAsMissing(NullOrUndefined)

\* a column of one half and one empty string, without null or undefined, was analyzed
C12_Witness ==
    /\ op = "analyzeField"
    /\ \E i \in 1..Len(data) : RowValue(data[i], analyzedField) = Str(<<>>)
    /\ \E i \in 1..Len(data) : RowValue(data[i], analyzedField) = Half(1)
    /\ ~fieldDescriptor.hasNulls
    /\ fieldDescriptor.cardinality = 2
    /\ fieldDescriptor.type = "DIMENSION"

(* C13: getCardinalityLevel returns LOW for every count up to 20, MEDIUM   *)
(* for every count from 21 to 100 and HIGH for every count from 101, and   *)
(* the cardinality analyzeField applies it to is the number of distinct    *)
(* values of the whole column, not of the preview of 10.                   *)
C13_CardinalityLevels ==
    /\ op = "getCardinalityLevel" => countLevel = TierOf(cardinalityCount)
    /\ op = "analyzeField" =>
          LET distinct == DistinctPresent(ColumnValues(data, analyzedField), NullOrUndefined)
          IN  /\ fieldDescriptor.cardinality = Cardinality(distinct)
              /\ fieldDescriptor.cardinalityLevel = TierOf(Cardinality(distinct))

\* a column of 101 distinct values was analyzed: the preview holds 10 of them
C13_Witness ==
    /\ op = "analyzeField"
    /\ fieldDescriptor.cardinality = MEDIUM + 1
    /\ Len(fieldDescriptor.uniqueValues) = 10
    /\ fieldDescriptor.cardinalityLevel = "HIGH"

---------------------------------------------------------------------------
(* The claims about the chart variants and the helpers of the column       *)
(* screen.                                                                 *)

\* the type of the i-th selected column (i from 1)
SelectedType(i) == columnTypes[selection[i]]

\* the selection is one categorical and one numeric column, in either order
CategoricalAndNumeric ==
    /\ Len(selection) = 2
    /\ \/ SelectedType(1) = "categorical" /\ SelectedType(2) = "numeric"
       \/ SelectedType(1) = "numeric" /\ SelectedType(2) = "categorical"

\* the selection in the other order
Reversed(list) == [i \in 1..Len(list) |-> list[Len(list) + 1 - i]]

(* C14: for a categorical and a numeric column, Bar/single and             *)
(* Pie/standard answer the same for [a, b] and [b, a], and the answer is   *)
(* true in either order, whether rows are passed or not.                   *)
C14_OrderIndependent ==
    (op = "isCompatible" /\ CategoricalAndNumeric)
    => /\ compatible[<<"Bar", "single">>]
       /\ compatible[<<"Pie", "standard">>]
       /\ compatible[<<"Bar", "single">>]
            = BarSingle(Reversed(selection), columnTypes, rowSample)
       /\ compatible[<<"Pie", "standard">>]
            = PieStandard(Reversed(selection), columnTypes, rowSample)

\* the numeric column came first and no rows were passed
C14_Witness ==
    /\ op = "isCompatible"
    /\ Len(selection) = 2
    /\ SelectedType(1) = "numeric"
    /\ SelectedType(2) = "categorical"
    /\ ~rowSample.supplied
    /\ compatible[<<"Bar", "single">>]
    /\ compatible[<<"Pie", "standard">>]

\* the selections the grouped, stacked and proportional bars are described to accept
GroupedBarSelection ==
    \/ /\ Len(selection) = 3
       /\ SelectedType(1) \in {"date", "categorical"}
       /\ SelectedType(2) = "categorical"
       /\ SelectedType(3) = "numeric"
    \/ /\ Len(selection) >= 3
       /\ SelectedType(1) \in {"categorical", "date"}
       /\ \A i \in 2..Len(selection) : SelectedType(i) = "numeric"

(* C15: Bar/grouped, Bar/stacked and Bar/proportional return true exactly  *)
(* when the selection is 3 columns typed date or categorical, categorical, *)
(* numeric in that order, or 3 or more columns of which the first is       *)
(* categorical or date and the others are all numeric; the three agree on  *)
(* every selection.                                                        *)
C15_GroupedStackedProportional ==
    op = "isCompatible"
    => /\ compatible[<<"Bar", "grouped">>] = GroupedBarSelection
       /\ compatible[<<"Bar", "stacked">>] = GroupedBarSelection
       /\ compatible[<<"Bar", "proportional">>] = GroupedBarSelection

\* a date and three numeric columns were selected, and the stacked bar accepted them
C15_Witness ==
    /\ op = "isCompatible"
    /\ Len(selection) = 4
    /\ SelectedType(1) = "date"
    /\ compatible[<<"Bar", "stacked">>]

\* the number of distinct values the rows hold in a column
DistinctIn(name) ==
    Cardinality({RowValue(rowSample.list[i], name) : i \in 1..Len(rowSample.list)})

\* the categorical column of a selection that is CategoricalAndNumeric
CategoricalColumn ==
    IF SelectedType(1) = "categorical" THEN selection[1] ELSE selection[2]

FirstColumnNonEmpty ==
    {v \in {RowValue(rowSample.list[i], selection[1]) : i \in 1..Len(rowSample.list)} :
        v \notin NullUndefinedOrEmpty}

\* the first selected column is a date, or numeric and shown by the rows to be ordinal
LineAxis ==
    \/ SelectedType(1) = "date"
    \/ /\ SelectedType(1) = "numeric"
       /\ rowSample.supplied
       /\ \A v \in FirstColumnNonEmpty : NumberIsInteger(ToNumber(v))
       /\ Cardinality({ToNumber(v) : v \in FirstColumnNonEmpty}) \in 2..10

(* C17: Line/simple, Line/multi and Line/area return true exactly when the *)
(* first selected column is a date, or is numeric and rows are passed in   *)
(* which its non-empty values are all integers of between 2 and 10         *)
(* distinct values; Line/multi needs 3 columns or more besides, Line/simple*)
(* and Line/area 2 or more.                                                *)
C17_LineVariants ==
    op = "isCompatible"
    => /\ compatible[<<"Line", "simple">>] = (Len(selection) >= 2 /\ LineAxis)
       /\ compatible[<<"Line", "multi">>] = (Len(selection) >= 3 /\ LineAxis)
       /\ compatible[<<"Line", "area">>] = (Len(selection) >= 2 /\ LineAxis)

\* two columns were selected, the first numeric with 10 distinct integers
C17_Witness ==
    /\ op = "isCompatible"
    /\ Len(selection) = 2
    /\ SelectedType(1) = "numeric"
    /\ rowSample.supplied
    /\ Cardinality({ToNumber(v) : v \in FirstColumnNonEmpty}) = 10
    /\ compatible[<<"Line", "simple">>]
    /\ ~compatible[<<"Line", "multi">>]
    /\ compatible[<<"Line", "area">>]

(* C18: for a column that is not in the selection, isColumnAddable returns *)
(* true if and only if some variant of some family is compatible with the  *)
(* selection followed by that column.                                      *)
C18_Addable ==
    (op = "isColumnAddable" /\ ~Includes(selection, candidate))
    => (addable <=> \E v \in VariantIds :
                        isCompatible(v, Append(selection, candidate), columnTypes, rowSample))

\* a column that some variant accepts in front of the selection, but none after it
C18_Witness ==
    /\ op = "isColumnAddable"
    /\ ~Includes(selection, candidate)
    /\ ~addable
    /\ \E v \in VariantIds :
          isCompatible(v, <<candidate>> \o selection, columnTypes, rowSample)

\* the sets of 1 to 4 positions in the list of columns
PositionSets == {p \in SUBSET (1..Len(allColumns)) : Cardinality(p) \in 1..4}

\* the columns at a set of positions, in the order of the dataset
ColumnsAt(p) ==
    LET kept == SelectSeq([i \in 1..Len(allColumns) |-> i], LAMBDA i : i \in p)
    IN  [j \in 1..Len(kept) |-> allColumns[kept[j]]]

\* some variant of the family asked for (of any family for All) accepts the columns at p
Satisfies(p) ==
    \E v \in VariantIds :
        /\ chartFamily = "All" \/ v[1] = chartFamily
        /\ isCompatible(v, ColumnsAt(p), columnTypes, rowSample)

\* p comes before q: fewer columns, or as many and an earlier column where they first differ
Before(p, q) ==
    \/ Cardinality(p) < Cardinality(q)
    \/ /\ Cardinality(p) = Cardinality(q)
       /\ p # q
       /\ LET differ == (p \ q) \cup (q \ p)
          IN  (CHOOSE i \in differ : \A j \in differ : i <= j) \in p

(* C19: getAutoSelectColumns returns a combination of 1 to 4 columns that  *)
(* satisfies some variant of the family asked for (any family for All)     *)
(* whenever there is one, the first of them by size and then by the order  *)
(* of the columns in the dataset; it returns null only when there is none. *)
C19_AutoSelect ==
    op = "getAutoSelectColumns"
    => LET satisfying == {p \in PositionSets : Satisfies(p)}
       IN  IF satisfying = {} THEN autoColumns = NoColumns
           ELSE \E p \in satisfying :
                    /\ autoColumns = [found |-> TRUE, combo |-> ColumnsAt(p)]
                    /\ \A q \in satisfying \ {p} : Before(p, q)

\* the combination returned is not of the first columns of the dataset
C19_Witness ==
    /\ op = "getAutoSelectColumns"
    /\ chartFamily = "Line"
    /\ Len(allColumns) = 4
    /\ autoColumns.found
    /\ Len(autoColumns.combo) = 2
    /\ autoColumns.combo[1] # allColumns[1]
    /\ autoColumns.combo[2] # allColumns[2]

---------------------------------------------------------------------------
(* The claims about the aggregation and binning of the charts.             *)

\* the sum of the counts of the bins 0 .. b
RECURSIVE CountsUpTo(_, _)
CountsUpTo(counts, b) == IF b < 0 THEN 0 ELSE counts[b] + CountsUpTo(counts, b - 1)

\* ceil(log2(n) + 1) between 5 and 30, for the numbers of values of the model
ClampedSturges(n) ==
    IF n <= 16 THEN 5 ELSE IF n <= 32 THEN 6 ELSE IF n <= 64 THEN 7 ELSE 8

(* C20, as claimed: for every non-empty list of numeric values, lists of   *)
(* equal values included, each value is counted in exactly one bin of      *)
(* index 0 .. binCount - 1, the counts of the bins sum to the number of    *)
(* values, the greatest value is counted in the last bin, and binCount is  *)
(* ceil(log2(n) + 1) kept between 5 and 30.                                *)
C20_BinningConserves ==
    (op = "binHistogram" /\ histogram.drawn)
    => LET n == Len(histogram.binned)
       IN  /\ histogram.binCount = ClampedSturges(n)
           /\ \A i \in 1..n :
                 /\ ~histogram.indexes[i].nan
                 /\ histogram.indexes[i].bin \in 0..(histogram.binCount - 1)
           /\ CountsUpTo(histogram.counts, histogram.binCount - 1) = n
           /\ \A i \in 1..n :
                 histogram.binned[i].n = histogram.max
                 => histogram.indexes[i] = BinIndex(histogram.binCount - 1)

\* the same, of the lists that hold two different values or more
C20_BinningConservesUnequal ==
    (op = "binHistogram" /\ histogram.drawn /\ histogram.min # histogram.max)
    => C20_BinningConserves

\* 17 values, not all equal, were binned into 6 bins
C20_UnequalWitness ==
    /\ op = "binHistogram"
    /\ histogram.drawn
    /\ Len(histogram.binned) = 17
    /\ histogram.binCount = 6
    /\ histogram.counts[5] >= 1
    /\ histogram.stray = 0


---------------------------------------------------------------------------
(* C21: the normalization of the proportional bars.                        *)

\* the number of axis positions and of series of the chart rendered
PositionCount == Len(chartOutput.labels)
SeriesCount == Len(chartOutput.datasets)

\* the sums of the series at position g are all numbers, and their total, twice
AllSumsAreNumbers(g) == \A d \in 1..SeriesCount : chartOutput.sums[d].points[g].kind = "number"

RECURSIVE TotalOfSums(_, _)
TotalOfSums(g, d) ==
    IF d = 0 THEN 0 ELSE chartOutput.sums[d].points[g].n + TotalOfSums(g, d - 1)

\* the sum of the numerators of the fractions drawn at position g, over one denominator
RECURSIVE TotalDrawn(_, _, _)
TotalDrawn(g, d, den) ==
    IF d = 0 THEN 0
    ELSE LET point == chartOutput.datasets[d].points[g]
         IN  point.num * (den \div point.den) + TotalDrawn(g, d - 1, den)

\* the fraction drawn is the share, in percent, of the sum in the total
IsShare(point, sum, total) ==
    point.kind = "number" /\ point.num * total = 100 * sum.n * point.den

IsZero(point) == point.kind = "number" /\ point.num = 0

ProportionalDrawn ==
    op = "renderStackedBars" /\ chartInput.key = "proportional" /\ chartOutput.drawn

(* C21, as claimed: after the normalization, at every axis position whose  *)
(* total over the series is not 0 the number of every series is its share  *)
(* of the total in percent, and the numbers sum to 100; at every position  *)
(* whose total is 0 the numbers of all series are 0.                       *)
C21_SharesOfNonZeroTotals ==
    ProportionalDrawn
    => \A g \in 1..PositionCount :
          AllSumsAreNumbers(g)
          => LET total == TotalOfSums(g, SeriesCount)
             IN  IF total # 0
                 THEN /\ \A d \in 1..SeriesCount :
                            IsShare(chartOutput.datasets[d].points[g],
                                    chartOutput.sums[d].points[g], total)
                      /\ TotalDrawn(g, SeriesCount, total) = 100 * total
                 ELSE \A d \in 1..SeriesCount : IsZero(chartOutput.datasets[d].points[g])

(* The same of the positions whose total is above 0, and of the others     *)
(* that their numbers are left as they were summed.                        *)
C21_SharesOfPositiveTotals ==
    ProportionalDrawn
    => \A g \in 1..PositionCount :
          AllSumsAreNumbers(g)
          => LET total == TotalOfSums(g, SeriesCount)
             IN  IF total > 0
                 THEN /\ \A d \in 1..SeriesCount :
                            IsShare(chartOutput.datasets[d].points[g],
                                    chartOutput.sums[d].points[g], total)
                      /\ TotalDrawn(g, SeriesCount, total) = 100 * total
                 ELSE \A d \in 1..SeriesCount :
                         chartOutput.datasets[d].points[g]
                             = AsFraction(chartOutput.sums[d].points[g])

\* the series 10, 30 and 30, 10 were drawn as 25, 75 and 75, 25
C21_SharesWitness ==
    /\ ProportionalDrawn
    /\ PositionCount = 2
    /\ SeriesCount = 2
    /\ \A g \in 1..2, d \in 1..2 :
          LET point == chartOutput.datasets[d].points[g]
          IN  point.num = (IF g = d THEN 25 ELSE 75) * point.den


---------------------------------------------------------------------------
(* C22: the pivot of the line chart of [date, categorical, numeric].       *)

PivotDrawn ==
    /\ op = "renderLine"
    /\ chartInput.cols = <<"Date", "Platform", "Followers">>
    /\ chartOutput.drawn

\* the day a date string names, as year, month and day in one number
DayOf(s) ==
    IF Len(s) = 10 /\ s[5] = "-"
    THEN DecimalValue(SubSeq(s, 1, 4)) * 10000 + DecimalValue(SubSeq(s, 6, 7)) * 100
         + DecimalValue(SubSeq(s, 9, 10))
    ELSE LET p == CHOOSE i \in 1..Len(s) : s[i] = "/" /\ \A j \in 1..(i - 1) : s[j] # "/"
             q == CHOOSE i \in (p + 1)..Len(s) : s[i] = "/"
         IN  DecimalValue(SubSeq(s, q + 1, Len(s))) * 10000
             + DecimalValue(SubSeq(s, 1, p - 1)) * 100 + DecimalValue(SubSeq(s, p + 1, q - 1))

\* the rows of a date and a category, by their indexes
PairRows(date, cat) ==
    {i \in 1..Len(chartInput.rows) :
        chartInput.rows[i].Date = date /\ chartInput.rows[i].Platform = cat}

\* twice the sum of the values of the rows of the indexes, if they are all numbers
RECURSIVE TwiceSum(_)
TwiceSum(indexes) ==
    IF indexes = {} THEN 0
    ELSE LET i == CHOOSE j \in indexes : TRUE
         IN  ToNumber(chartInput.rows[i].Followers).n + TwiceSum(indexes \ {i})

AllNumbers(indexes) ==
    \A i \in indexes : ToNumber(chartInput.rows[i].Followers).kind = "number"

DistinctDates == {chartInput.rows[i].Date : i \in 1..Len(chartInput.rows)}
DistinctCategories == {chartInput.rows[i].Platform : i \in 1..Len(chartInput.rows)}

\* one series per distinct category, each with one entry per distinct date
OneSeriesPerCategory ==
    /\ Len(chartOutput.datasets) = Cardinality(DistinctCategories)
    /\ {chartOutput.datasets[c].label : c \in 1..Len(chartOutput.datasets)} = DistinctCategories
    /\ Len(chartOutput.labels) = Cardinality(DistinctDates)
    /\ {chartOutput.labels[d] : d \in 1..Len(chartOutput.labels)} = DistinctDates
    /\ \A c \in 1..Len(chartOutput.datasets) :
          Len(chartOutput.datasets[c].points) = Len(chartOutput.labels)

\* the entry of a pair without rows is null, of a pair with rows the mean of their values
NullOrMean ==
    \A c \in 1..Len(chartOutput.datasets), d \in 1..Len(chartOutput.labels) :
        LET indexes == PairRows(chartOutput.labels[d], chartOutput.datasets[c].label)
            point == chartOutput.datasets[c].points[d]
        IN  IF indexes = {} THEN point = NullPoint
            ELSE IF AllNumbers(indexes)
            THEN /\ point.kind = "number"
                 /\ point.num * 2 * Cardinality(indexes) = TwiceSum(indexes) * point.den
            ELSE point.kind = "NaN"

\* the dates of the axis ascend
AscendingDates ==
    \A d \in 1..(Len(chartOutput.labels) - 1) :
        DayOf(chartOutput.labels[d].s) < DayOf(chartOutput.labels[d + 1].s)

(* C22, as claimed: the pivot over [date, categorical, numeric] has        *)
(* exactly one series per distinct category; every series has one entry    *)
(* per distinct date, in ascending order of the dates; the entry of a      *)
(* (date, category) pair without rows is null, and the entry of a pair     *)
(* with rows is the mean of their values.                                  *)
C22_PivotInDateOrder ==
    PivotDrawn => (OneSeriesPerCategory /\ NullOrMean /\ AscendingDates)

\* the same without the order of the dates
C22_PivotSeries ==
    PivotDrawn => (OneSeriesPerCategory /\ NullOrMean)

\* the dates of the axis ascend as strings, by code unit
C22_PivotInStringOrder ==
    PivotDrawn
    => \A d \in 1..(Len(chartOutput.labels) - 1) :
          LessString(chartOutput.labels[d].s, chartOutput.labels[d + 1].s)

\* three series over two dates given out of order, one of them with a null entry
C22_PivotWitness ==
    /\ PivotDrawn
    /\ Len(chartOutput.datasets) = 3
    /\ Len(chartOutput.labels) = 2
    /\ chartInput.rows[2].Date = chartOutput.labels[2]
    /\ chartInput.rows[3].Date = chartOutput.labels[1]
    /\ \E c \in 1..3 : chartOutput.datasets[c].points[2] = NullPoint


---------------------------------------------------------------------------
(* C23: aggregateByCategory.                                               *)

Aggregated == op = "aggregateByCategory"

\* the category values of the rows as labels, in first-seen row order
FirstSeenLabels ==
    Unique([i \in 1..Len(chartInput.rows) |-> PropertyKey(chartInput.rows[i].Category)])

\* the rows of a label, and those of them whose amount is a number
RowsLabelled(label) ==
    {i \in 1..Len(chartInput.rows) : PropertyKey(chartInput.rows[i].Category) = label}

WithAmount(indexes) ==
    {i \in indexes : ToNumber(chartInput.rows[i].Amount).kind = "number"}

RECURSIVE TwiceAmount(_)
TwiceAmount(indexes) ==
    IF indexes = {} THEN 0
    ELSE LET i == CHOOSE j \in indexes : TRUE
         IN  ToNumber(chartInput.rows[i].Amount).n + TwiceAmount(indexes \ {i})

\* values[i] is the count of the rows of labels[i], or the sum of their amounts
CountsOrSums ==
    /\ Len(chartOutput.values) = Len(chartOutput.labels)
    /\ \A e \in 1..Len(chartOutput.labels) :
          chartOutput.values[e]
              = IF chartInput.key = ""
                THEN 2 * Cardinality(RowsLabelled(chartOutput.labels[e]))
                ELSE TwiceAmount(WithAmount(RowsLabelled(chartOutput.labels[e])))

(* C23, as claimed: labels holds every distinct category value of the rows *)
(* exactly once, in first-seen row order, whatever the category values,    *)
(* integer-like strings included; values[i] is the number of rows of       *)
(* category labels[i] without a value column, and the sum of the value     *)
(* column over those rows with one.                                        *)
C23_FirstSeenOrder ==
    Aggregated => (chartOutput.labels = FirstSeenLabels /\ CountsOrSums)

\* the labels are those of the rows counted or summed, each once, with their count or sum
C23_CountsAndSums ==
    Aggregated
    => /\ CountsOrSums
       /\ \A e, f \in 1..Len(chartOutput.labels) :
             chartOutput.labels[e] = chartOutput.labels[f] => e = f
       /\ {chartOutput.labels[e] : e \in 1..Len(chartOutput.labels)}
              = {label \in {FirstSeenLabels[i] : i \in 1..Len(FirstSeenLabels)} :
                    chartInput.key = "" \/ WithAmount(RowsLabelled(label)) # {}}

\* categories 10, 2 and 7 were summed over five rows
C23_IntegerWitness ==
    /\ Aggregated
    /\ chartInput.key = "Amount"
    /\ Len(chartInput.rows) = 5
    /\ Len(chartOutput.labels) = 3
    /\ IsArrayIndex(chartOutput.labels[1])


---------------------------------------------------------------------------
(* C29: the pie variants and their rendering.                              *)

PieRendered == op = "renderPie" /\ chartInput.key \in {"standard", "donut"}

\* the types of the columns of the table rendered
PieTypes == TypesOf(ColumnSet, Len(chartInput.rows))

\* the categorical column of the selection, and the number of its categories
CategoricalOf(cols) ==
    IF PieTypes[cols[1]] = "categorical" THEN cols[1] ELSE cols[Len(cols)]

CategoryCount ==
    Cardinality({chartInput.rows[i][CategoricalOf(chartInput.cols)] :
                    i \in 1..Len(chartInput.rows)})

(* C29, as claimed: of every selection that Pie/standard or Pie/donut      *)
(* accepts and that has at most 20 categories, the rendering builds an     *)
(* aggregate and draws a chart, whichever of the two positions the         *)
(* categorical column has.                                                 *)
C29_CompatibleIsRendered ==
    (PieRendered /\ CategoryCount <= 20) => chartOutput.drawn

\* the same of the selections whose first column is the categorical one, and only of them
C29_CategoricalFirstIsRendered ==
    (PieRendered /\ CategoryCount <= 20)
    => (chartOutput.drawn <=> PieTypes[chartInput.cols[1]] = "categorical")

\* a pie of a categorical and a numeric column was drawn with 8 slices
C29_PieWitness ==
    /\ PieRendered
    /\ Len(chartInput.cols) = 2
    /\ chartOutput.drawn
    /\ Len(chartOutput.labels) = 8


---------------------------------------------------------------------------
(* C24, C27 and C28: the MagicCharts component.                            *)

\* columns, rows and columnTypes are those of the file f
AllFrom(f) ==
    /\ magicState.columns = FileColumns(f)
    /\ magicState.rows = f
    /\ magicState.columnTypes = f

\* the position in the log of the start of the upload completed at position k
StartOf(k) ==
    CHOOSE i \in 1..k :
        /\ uploadLog[i] = [event |-> "start", file |-> uploadLog[k].file]
        /\ \A j \in (i + 1)..(k - 1) : uploadLog[j].file # uploadLog[k].file

(* the completion at position k of the log ends a race: an upload started  *)
(* before the upload completed at k, or between its start and its end, has *)
(* completed at j < k, both after both had started                         *)
EndsRace(j, k) ==
    /\ j < k
    /\ uploadLog[j].event = "complete"
    /\ uploadLog[k].event = "complete"
    /\ uploadLog[j].file # uploadLog[k].file
    /\ StartOf(j) < j /\ StartOf(k) < j
    /\ \A i \in (j + 1)..(k - 1) : uploadLog[i].event # "complete"

\* the last event was the completion that ended a race of two files with a header
RaceOver(j) ==
    /\ uiEvent.kind = "complete"
    /\ Len(uploadLog) >= 4
    /\ EndsRace(j, Len(uploadLog))
    /\ FileHasFields(uploadLog[j].file)
    /\ FileHasFields(uploadLog[Len(uploadLog)].file)

(* C24: when a second upload is started before the parse of the first has  *)
(* completed, then whichever completion callback runs last, the state      *)
(* after it has columns, rows and columnTypes of one and the same of the   *)
(* two files, and selectedColumns is empty.                                *)
C24_ConsistentAfterRace ==
    \A j \in 1..Len(uploadLog) :
        RaceOver(j)
        => /\ \E k \in {j, Len(uploadLog)} : AllFrom(uploadLog[k].file)
           /\ magicState.selectedColumns = <<>>

\* file 1 was started first and completed last, after columns of file 2 had been selected
C24_RaceWitness ==
    /\ RaceOver(3)
    /\ uploadLog = <<[event |-> "start", file |-> 1], [event |-> "start", file |-> 2],
                     [event |-> "complete", file |-> 2], [event |-> "complete", file |-> 1]>>
    /\ uiEvent.before # <<>>
    /\ AllFrom(1)

\* a dataset was loaded by the last event: a completion with a header, or the sample
DatasetLoaded ==
    \/ uiEvent.kind = "sample" /\ FileHasFields(SampleFile)
    \/ uiEvent.kind = "complete" /\ FileHasFields(uploadLog[Len(uploadLog)].file)

(* C27: after any sequence of upload completions, sample selections,       *)
(* column toggles and auto-select clicks, every name in selectedColumns is *)
(* one of columns and is there once; after a dataset was loaded            *)
(* selectedColumns is empty.                                               *)
C27_SelectionOfColumns ==
    /\ \A i \in 1..Len(magicState.selectedColumns) :
          /\ Includes(magicState.columns, magicState.selectedColumns[i])
          /\ \A j \in 1..Len(magicState.selectedColumns) :
                magicState.selectedColumns[i] = magicState.selectedColumns[j] => i = j
    /\ DatasetLoaded => magicState.selectedColumns = <<>>

\* a dataset was loaded over a selection of two columns of the dataset before
C27_ResetWitness ==
    /\ DatasetLoaded
    /\ Len(uiEvent.before) = 2
    /\ \E i \in 1..2 : ~Includes(magicState.columns, uiEvent.before[i])
    /\ magicState.selectedColumns = <<>>

\* the last event was a click that added a column to a selection that was not empty
AddedToSelection ==
    /\ uiEvent.kind = "toggle"
    /\ uiEvent.before # <<>>
    /\ ~Includes(uiEvent.before, uiEvent.col)
    /\ magicState.selectedColumns # uiEvent.before

(* C28: a column that is not selected is added to a selection that is not  *)
(* empty only when isColumnAddable holds of it, and the selection after    *)
(* the click, the one before followed by the column, is accepted by at     *)
(* least one variant of CHART_VARIANTS; a click on a disabled column       *)
(* leaves selectedColumns as it was.                                       *)
C28_OnlyAddableIsAdded ==
    /\ AddedToSelection
       => /\ isColumnAddable(uiEvent.col, uiEvent.before, magicState.columns,
                             FileTypes[magicState.columnTypes], FileRows[magicState.rows])
          /\ magicState.selectedColumns = Append(uiEvent.before, uiEvent.col)
          /\ SomeCompatible(AllVariants, magicState.selectedColumns,
                            FileTypes[magicState.columnTypes],
                            SomeRows(FileRows[magicState.rows]))
    /\ (uiEvent.kind = "toggle" /\ uiEvent.disabled)
       => magicState.selectedColumns = uiEvent.before

\* a third column was added to a selection of two
C28_AddWitness ==
    /\ AddedToSelection
    /\ Len(uiEvent.before) = 2
    /\ Len(magicState.selectedColumns) = 3

\* a disabled column was clicked
C28_DisabledWitness ==
    /\ uiEvent.kind = "toggle"
    /\ uiEvent.disabled


---------------------------------------------------------------------------
(* C25 and C30: DataUpload and App.                                        *)

\* the last event was the end of an upload or of a sample selection that cannot be ingested
IngestionFailed ==
    /\ appEvent.kind \in {"read", "sample"}
    /\ \/ ~appEvent.file.readable
       \/ appEvent.file.errors > 0
       \/ appEvent.file.rows = 0

(* C25: when the parse reports an error or yields no rows, or the file     *)
(* cannot be read, onError is called with a message and onDataUpload is    *)
(* not: no dataset is registered and the list of datasets of App is as it  *)
(* was.                                                                    *)
C25_FailedIngestionRegistersNothing ==
    IngestionFailed
    => /\ appEvent.onError # ""
       /\ ~appEvent.onDataUpload
       /\ appState.datasets = appEvent.before
       /\ appState.error = appEvent.onError

\* a file with rows and a parse error was refused while a dataset was registered
C25_RefusedWitness ==
    /\ IngestionFailed
    /\ appEvent.kind = "read"
    /\ appEvent.file = [readable |-> TRUE, errors |-> 1, rows |-> 2]
    /\ appEvent.before # <<>>
    /\ appEvent.onError = "CSV parsing errors"

(* C30, as claimed: after any sequence of uploads, removeDataset calls and *)
(* Start Again, currentDatasetId is null or the id of a dataset of the     *)
(* list; after the removal of the current dataset while others remain it   *)
(* is the id of one of those that remain.                                  *)
C30_CurrentIsListed ==
    \/ appState.currentDatasetId = 0
    \/ Includes(appState.datasets, appState.currentDatasetId)


---------------------------------------------------------------------------
(* C26: detectColumnType.                                                  *)

\* a column has been typed
Detected == op = "detectColumnType"

\* the places of the non-empty values among the first 10
SamplePlaces ==
    {i \in 1..Len(columnValues) :
        i <= 10 /\ columnValues[i] \notin {Undefined, Null, Str(<<>>)}}

DatePlaces == {i \in SamplePlaces : MatchesDatePattern(columnValues[i].s)}
NumberPlaces == {i \in SamplePlaces : StringToNumber(columnValues[i].s) # NaN}
DistinctValues == {columnValues[i].s : i \in SamplePlaces}
DistinctIgnoringCase == {toLowerCase(columnValues[i].s) : i \in SamplePlaces}

\* the decision in the order of the claim, over a count of distinct values
Decided(distinctCount) ==
    LET size == Cardinality(SamplePlaces)
    IN  IF Cardinality(DatePlaces) = size THEN "date"
        ELSE IF 10 * Cardinality(NumberPlaces) > 8 * size THEN "numeric"
        ELSE IF distinctCount <= 20 /\ 2 * distinctCount <= size THEN "categorical"
        ELSE "text"

(* C26, as claimed: over the non-empty values among the first 10, 'date'   *)
(* if all of them match YYYY-MM-DD; else 'numeric' if more than 80% of     *)
(* them parse as numbers; else 'categorical' if the count of their         *)
(* distinct values is at most min(20, half the size of the sample); else   *)
(* 'text'.                                                                 *)
C26_DecidesInOrder ==
    Detected => columnType = Decided(Cardinality(DistinctValues))

(* C26, amended: a sample without a value is 'text'; otherwise the         *)
(* decision is the one above, with the distinct values counted without     *)
(* regard to the case of their letters.                                    *)
C26_DecidesInOrderIgnoringCase ==
    Detected
    => columnType = IF SamplePlaces = {} THEN "text"
                     ELSE Decided(Cardinality(DistinctIgnoringCase))

\* four words that are two without regard to case made a categorical column
C26_CaseWitness ==
    /\ Detected
    /\ Cardinality(SamplePlaces) = 4
    /\ Cardinality(DistinctValues) = 4
    /\ Cardinality(DistinctIgnoringCase) = 2
    /\ columnType = "categorical"

\* a column of empty cells only was typed
C26_EmptyWitness ==
    /\ Detected
    /\ Len(columnValues) = 2
    /\ SamplePlaces = {}
    /\ columnType = "text"

====
